---------------------------- MODULE Spec2Model ----------------------------
(***************************************************************************)
(* Model of the bracket-table evaluation engine of swiss-taxes             *)
(* (analysis/src/table.rs, wasm/src/table.rs), of the formula parser and   *)
(* evaluator (analysis/src/formula.rs), of the construction of the tables  *)
(* from the rows of a scale (analysis/src/table.rs) and of the callers     *)
(* that hand loaded scale data to the engine (analysis/src/load.rs,        *)
(* examples.rs, main.rs, plot.rs).                                         *)
(*                                                                         *)
(* Numbers.  An f64 is modelled as a pair <<n, d>>: a finite value is the  *)
(* exact rational n/d in lowest terms with d > 0; d = 0 marks the          *)
(* non-finite values +inf = <<1,0>>, -inf = <<-1,0>> and NaN = <<0,0>>.    *)
(* Arithmetic and comparisons follow IEEE-754 on the non-finite values     *)
(* (NaN is unordered, inf - inf = NaN, 0 * inf = NaN, c / 0 = +-inf,       *)
(* 0 / 0 = NaN).  Two things are abstracted: finite results are exact (no  *)
(* rounding to 53 bits), and the sign of a zero is not kept (every zero    *)
(* is +0).                                                                 *)
(***************************************************************************)
EXTENDS Integers, Sequences, FiniteSets, TLC

VARIABLES
    table,      \* Table.table: the RawTable, [kind, entries] or [kind, rate]
    policy,     \* Table.policy: the EvalPolicy
    caller,     \* who made the last call of the engine ("none" before any)
    call,       \* the last call: [op, x, split]
    status,     \* "idle", "returned" or "panicked" (assert_eq! failed)
    result,     \* <<v>> with the f64 returned, <<>> when nothing was returned
    scale,      \* the loaded scale data the callers work from
    formula_text, \* the formula text handed to Formula::try_from
    parsed,     \* <<r>> with the Result of Formula::try_from, <<>> before it
    built       \* <<r>> with the Result of Table::try_from, <<>> before it

vars == <<table, policy, caller, call, status, result, scale, formula_text, parsed, built>>

---------------------------------------------------------------------------
(* f64 *)

Abs(n) == IF n < 0 THEN -n ELSE n

Sign(n) == IF n < 0 THEN -1 ELSE IF n > 0 THEN 1 ELSE 0

RECURSIVE GCD(_, _)
GCD(a, b) == IF b = 0 THEN a ELSE GCD(b, a % b)

Inf  == <<1, 0>>
NInf == <<-1, 0>>
NaN  == <<0, 0>>
Zero == <<0, 1>>

IsFinite(a) == a[2] # 0
IsNaN(a) == a[1] = 0 /\ a[2] = 0

\* n/d with d # 0, in lowest terms with a positive denominator
Frac(n, d) ==
    LET g == GCD(Abs(n), Abs(d))
        s == IF d < 0 THEN -1 ELSE 1
    IN  <<s * (n \div g), s * (d \div g)>>

F64(n) == <<n, 1>>

FNeg(a) == <<-a[1], a[2]>>

\* a + b
FAdd(a, b) ==
    IF IsNaN(a) \/ IsNaN(b) THEN NaN
    ELSE IF ~IsFinite(a) /\ ~IsFinite(b) THEN (IF a = b THEN a ELSE NaN)
    ELSE IF ~IsFinite(a) THEN a
    ELSE IF ~IsFinite(b) THEN b
    ELSE LET g == GCD(a[2], b[2])
             l == (a[2] \div g) * b[2]
         IN  Frac(a[1] * (l \div a[2]) + b[1] * (l \div b[2]), l)

\* a - b
FSub(a, b) == FAdd(a, FNeg(b))

\* a * b
FMul(a, b) ==
    IF IsNaN(a) \/ IsNaN(b) THEN NaN
    ELSE IF ~IsFinite(a) \/ ~IsFinite(b)
         THEN <<Sign(a[1]) * Sign(b[1]), 0>>
    ELSE LET g1 == GCD(Abs(a[1]), b[2])
             g2 == GCD(Abs(b[1]), a[2])
         IN  <<(a[1] \div g1) * (b[1] \div g2), (a[2] \div g2) * (b[2] \div g1)>>

\* a / b
FDiv(a, b) ==
    IF IsNaN(a) \/ IsNaN(b) THEN NaN
    ELSE IF ~IsFinite(a) /\ ~IsFinite(b) THEN NaN
    ELSE IF ~IsFinite(a)
         THEN <<a[1] * (IF b[1] < 0 THEN -1 ELSE 1), 0>>
    ELSE IF ~IsFinite(b) THEN Zero
    ELSE IF b[1] = 0 THEN <<Sign(a[1]), 0>>
    ELSE FMul(a, Frac(b[2], b[1]))

\* a < b, a <= b, a >= b, a == b: false whenever an operand is NaN
FLt(a, b) ==
    /\ ~IsNaN(a)
    /\ ~IsNaN(b)
    /\ IF ~IsFinite(a) /\ ~IsFinite(b) THEN a[1] < b[1]
       ELSE IF ~IsFinite(a) THEN a[1] < 0
       ELSE IF ~IsFinite(b) THEN b[1] > 0
       ELSE a[1] * b[2] < b[1] * a[2]

FEq(a, b) == ~IsNaN(a) /\ ~IsNaN(b) /\ a = b

FLe(a, b) == FLt(a, b) \/ FEq(a, b)

FGe(a, b) == FLe(b, a)

\* f64::floor
FFloor(a) == IF IsFinite(a) THEN F64(a[1] \div a[2]) ELSE a

\* f64::ln.  The logarithm of a finite positive value other than 1 is not a
\* rational: it is stood for by 2(v-1)/(v+1), which has ln's sign, is
\* increasing like ln and agrees with it at 1.  The non-finite cases are exact.
FLn(a) ==
    IF IsNaN(a) THEN NaN
    ELSE IF a = Inf THEN Inf
    ELSE IF a[1] < 0 THEN NaN
    ELSE IF a[1] = 0 THEN NInf
    ELSE FDiv(FMul(F64(2), FSub(a, F64(1))), FAdd(a, F64(1)))

---------------------------------------------------------------------------
(* Formula *)

\* mutant of Formula_eval: the logarithm of a non-positive value is trapped
\* and replaced by 0
RECURSIVE Formula_eval_trapped(_, _)
Formula_eval_trapped(f, x) ==
    CASE f.op = "Input" -> x
      [] f.op = "Const" -> f.c
      [] f.op = "Log"   ->
             IF FLe(Formula_eval_trapped(f.a, x), Zero) THEN Zero
             ELSE FLn(Formula_eval_trapped(f.a, x))
      [] f.op = "Add"   ->
             FAdd(Formula_eval_trapped(f.a, x), Formula_eval_trapped(f.b, x))
      [] f.op = "Sub"   ->
             FSub(Formula_eval_trapped(f.a, x), Formula_eval_trapped(f.b, x))
      [] f.op = "Mul"   ->
             FMul(Formula_eval_trapped(f.a, x), Formula_eval_trapped(f.b, x))
      [] f.op = "Div"   ->
             FDiv(Formula_eval_trapped(f.a, x), Formula_eval_trapped(f.b, x))

\* Formula::eval: structural recursion over the AST [op, c, a, b]
RECURSIVE Formula_eval(_, _)
Formula_eval(f, x) ==
    CASE f.op = "Input" -> x
      [] f.op = "Const" -> f.c
      [] f.op = "Log"   -> FLn(Formula_eval(f.a, x))
      [] f.op = "Add"   -> FAdd(Formula_eval(f.a, x), Formula_eval(f.b, x))
      [] f.op = "Sub"   -> FSub(Formula_eval(f.a, x), Formula_eval(f.b, x))
      [] f.op = "Mul"   -> FMul(Formula_eval(f.a, x), Formula_eval(f.b, x))
      [] f.op = "Div"   -> FDiv(Formula_eval(f.a, x), Formula_eval(f.b, x))

---------------------------------------------------------------------------
(* The five table variants *)

\* mutant of TableBund_eval: the brackets are scanned from the lowest upward
RECURSIVE TableBund_scanForward(_, _, _)
TableBund_scanForward(entries, i, x) ==
    IF i > Len(entries) THEN Zero
    ELSE IF FGe(x, entries[i].bracket_start)
         THEN FAdd(entries[i].base_tax,
                   FDiv(FMul(FSub(x, entries[i].bracket_start),
                             entries[i].marginal_rate),
                        F64(100)))
         ELSE TableBund_scanForward(entries, i + 1, x)

TableBund_eval_forward(entries, x) == TableBund_scanForward(entries, 1, x)

\* TableBund::eval: the loop over self.0.iter().rev(), i the entry looked at
RECURSIVE TableBund_scan(_, _, _)
TableBund_scan(entries, i, x) ==
    IF i = 0 THEN Zero
    ELSE IF FGe(x, entries[i].bracket_start)
         THEN FAdd(entries[i].base_tax,
                   FDiv(FMul(FSub(x, entries[i].bracket_start),
                             entries[i].marginal_rate),
                        F64(100)))
         ELSE TableBund_scan(entries, i - 1, x)

TableBund_eval(entries, x) == TableBund_scan(entries, Len(entries), x)

\* TableFlattax::eval
TableFlattax_eval(rate, x) == FDiv(FMul(x, rate), F64(100))

\* TableFormel::eval: the loop over self.0.iter().rev()
RECURSIVE TableFormel_scan(_, _, _)
TableFormel_scan(entries, i, x) ==
    IF i = 0 THEN Zero
    ELSE IF FGe(x, entries[i].bracket_start)
         THEN Formula_eval(entries[i].formula, x)
         ELSE TableFormel_scan(entries, i - 1, x)

TableFormel_eval(entries, x) == TableFormel_scan(entries, Len(entries), x)

\* mutant of TableFreiburg_eval: the brackets are scanned from the lowest
\* upward
RECURSIVE TableFreiburg_scanUp(_, _, _)
TableFreiburg_scanUp(entries, i, x) ==
    IF i > Len(entries) THEN Zero
    ELSE IF FGe(x, entries[i].bracket_start)
         THEN LET entry == entries[i]
                  tax_rate ==
                      IF i = Len(entries) THEN entry.tax_rate
                      ELSE LET weight ==
                                   FDiv(FSub(x, entry.bracket_start),
                                        FSub(entries[i + 1].bracket_start,
                                             entry.bracket_start))
                           IN  FAdd(entry.tax_rate,
                                    FMul(weight,
                                         FSub(entries[i + 1].tax_rate,
                                              entry.tax_rate)))
              IN  FDiv(FMul(x, tax_rate), F64(100))
         ELSE TableFreiburg_scanUp(entries, i + 1, x)

TableFreiburg_eval_up(entries, x) == TableFreiburg_scanUp(entries, 1, x)

\* mutant of TableFreiburg_eval: the rate of the bracket, not interpolated
RECURSIVE TableFreiburg_scanFlat(_, _, _)
TableFreiburg_scanFlat(entries, i, x) ==
    IF i = 0 THEN Zero
    ELSE IF FGe(x, entries[i].bracket_start)
         THEN FDiv(FMul(x, entries[i].tax_rate), F64(100))
         ELSE TableFreiburg_scanFlat(entries, i - 1, x)

TableFreiburg_eval_flat(entries, x) ==
    TableFreiburg_scanFlat(entries, Len(entries), x)

\* TableFreiburg::eval: the loop over self.0.iter().enumerate().rev(); the
\* source's index i is i - 1 here (sequences start at 1)
RECURSIVE TableFreiburg_scan(_, _, _)
TableFreiburg_scan(entries, i, x) ==
    IF i = 0 THEN Zero
    ELSE IF FGe(x, entries[i].bracket_start)
         THEN LET entry == entries[i]
                  tax_rate ==
                      IF i = Len(entries) THEN entry.tax_rate
                      ELSE LET weight ==
                                   FDiv(FSub(x, entry.bracket_start),
                                        FSub(entries[i + 1].bracket_start,
                                             entry.bracket_start))
                           IN  FAdd(entry.tax_rate,
                                    FMul(weight,
                                         FSub(entries[i + 1].tax_rate,
                                              entry.tax_rate)))
              IN  FDiv(FMul(x, tax_rate), F64(100))
         ELSE TableFreiburg_scan(entries, i - 1, x)

TableFreiburg_eval(entries, x) == TableFreiburg_scan(entries, Len(entries), x)

\* mutant of TableZuerich_eval: the consumed width is not taken off the income
RECURSIVE TableZuerich_loopKeep(_, _, _, _)
TableZuerich_loopKeep(entries, i, x, tax) ==
    IF i > Len(entries) THEN tax
    ELSE IF FLe(x, entries[i].bracket_len)
         THEN FAdd(tax, FDiv(FMul(x, entries[i].marginal_rate), F64(100)))
         ELSE TableZuerich_loopKeep(
                  entries, i + 1, x,
                  FAdd(tax, FDiv(FMul(entries[i].bracket_len,
                                      entries[i].marginal_rate),
                                 F64(100))))

TableZuerich_eval_keep(entries, x) == TableZuerich_loopKeep(entries, 1, x, Zero)

\* mutant of TableZuerich_eval: the income left after the last bracket is
\* taxed at the last bracket's rate
RECURSIVE TableZuerich_loopBeyond(_, _, _, _)
TableZuerich_loopBeyond(entries, i, x, tax) ==
    IF i > Len(entries)
    THEN IF entries = <<>> THEN tax
         ELSE FAdd(tax, FDiv(FMul(x, entries[Len(entries)].marginal_rate),
                             F64(100)))
    ELSE IF FLe(x, entries[i].bracket_len)
         THEN FAdd(tax, FDiv(FMul(x, entries[i].marginal_rate), F64(100)))
         ELSE TableZuerich_loopBeyond(
                  entries, i + 1,
                  FSub(x, entries[i].bracket_len),
                  FAdd(tax, FDiv(FMul(entries[i].bracket_len,
                                      entries[i].marginal_rate),
                                 F64(100))))

TableZuerich_eval_beyond(entries, x) ==
    TableZuerich_loopBeyond(entries, 1, x, Zero)

\* TableZuerich::eval: the loop over &self.0 with the mutable x and tax
RECURSIVE TableZuerich_loop(_, _, _, _)
TableZuerich_loop(entries, i, x, tax) ==
    IF i > Len(entries) THEN tax
    ELSE IF FLe(x, entries[i].bracket_len)
         THEN FAdd(tax, FDiv(FMul(x, entries[i].marginal_rate), F64(100)))
         ELSE TableZuerich_loop(
                  entries, i + 1,
                  FSub(x, entries[i].bracket_len),
                  FAdd(tax, FDiv(FMul(entries[i].bracket_len,
                                      entries[i].marginal_rate),
                                 F64(100))))

TableZuerich_eval(entries, x) == TableZuerich_loop(entries, 1, x, Zero)

---------------------------------------------------------------------------
(* RawTable *)

\* RawTable::eval_raw
eval_raw(t, x) ==
    CASE t.kind = "Bund"     -> TableBund_eval(t.entries, x)
      [] t.kind = "Flattax"  -> TableFlattax_eval(t.rate, x)
      [] t.kind = "Formel"   -> TableFormel_eval(t.entries, x)
      [] t.kind = "Freiburg" -> TableFreiburg_eval(t.entries, x)
      [] t.kind = "Zuerich"  -> TableZuerich_eval(t.entries, x)

\* mutant of floor_100: the quotient is scaled by 50
floor_100_half(x) == FMul(FFloor(FDiv(x, F64(100))), F64(50))

\* RawTable::floor_100
floor_100(x) == FMul(FFloor(FDiv(x, F64(100))), F64(100))

\* mutant of eval_round100: the income is not rounded down
eval_round100_unrounded(t, x) == eval_raw(t, x)

\* RawTable::eval_round100
eval_round100(t, x) == eval_raw(t, floor_100(x))

\* RawTable::eval_split_raw
eval_split_raw(t, x, split) ==
    IF FEq(split, Zero) THEN eval_raw(t, x)
    ELSE FMul(eval_raw(t, FDiv(x, split)), split)

\* mutant of eval_split_round100: with split = 0 the income is not rounded
eval_split_round100_rawAtZero(t, x, split) ==
    IF FEq(split, Zero) THEN eval_raw(t, x)
    ELSE LET xx == floor_100(x)
             yy == FDiv(xx, split)
             rate == IF FEq(yy, Zero) THEN Zero
                     ELSE FDiv(eval_raw(t, yy), yy)
         IN  FMul(rate, xx)

\* mutant of eval_split_round100: the rate is computed without the yy = 0 guard
eval_split_round100_unguarded(t, x, split) ==
    IF FEq(split, Zero) THEN eval_round100(t, x)
    ELSE LET xx == floor_100(x)
             yy == FDiv(xx, split)
             rate == FDiv(eval_raw(t, yy), yy)
         IN  FMul(rate, xx)

\* mutant of eval_split_round100: the rate is applied to the unrounded income
eval_split_round100_rateOnX(t, x, split) ==
    IF FEq(split, Zero) THEN eval_round100(t, x)
    ELSE LET xx == floor_100(x)
             yy == FDiv(xx, split)
             rate == IF FEq(yy, Zero) THEN Zero
                     ELSE FDiv(eval_raw(t, yy), yy)
         IN  FMul(rate, x)

\* RawTable::eval_split_round100
eval_split_round100(t, x, split) ==
    IF FEq(split, Zero) THEN eval_round100(t, x)
    ELSE LET xx == floor_100(x)
             yy == FDiv(xx, split)
             rate == IF FEq(yy, Zero) THEN Zero
                     ELSE FDiv(eval_raw(t, yy), yy)
         IN  FMul(rate, xx)

\* mutant of eval_split_double_round100: the boundary is floored once only
eval_split_double_round100_onceFloored(t, x, split) ==
    eval_split_round100(t, x, split)

\* RawTable::eval_split_double_round100
eval_split_double_round100(t, x, split) ==
    IF FEq(split, Zero) THEN eval_round100(t, x)
    ELSE LET xx == floor_100(x)
             yy == floor_100(FDiv(xx, split))
             rate == IF FEq(yy, Zero) THEN Zero
                     ELSE FDiv(eval_raw(t, yy), yy)
         IN  FMul(rate, xx)

---------------------------------------------------------------------------
(* Table *)

EvalPolicy ==
    {"Raw", "Round100", "DoubleRound100", "NoSplitRaw", "NoSplitRound100",
     "Valais"}

\* Table::eval
Table_eval(t, p, x) ==
    CASE p \in {"Raw", "NoSplitRaw"} -> eval_raw(t, x)
      [] p \in {"Round100", "DoubleRound100", "NoSplitRound100"} ->
             eval_round100(t, x)
      [] p = "Valais" -> eval_raw(t, x)

\* mutant of Table_eval_split: Valais takes Round100's split path
Table_eval_split_valaisRounds(t, p, x, split) ==
    CASE p = "Raw" -> <<eval_split_raw(t, x, split)>>
      [] p = "Round100" -> <<eval_split_round100(t, x, split)>>
      [] p = "DoubleRound100" -> <<eval_split_double_round100(t, x, split)>>
      [] p = "NoSplitRaw" ->
             IF FEq(split, Zero) THEN <<eval_split_raw(t, x, split)>>
             ELSE <<>>
      [] p = "NoSplitRound100" ->
             IF FEq(split, Zero) THEN <<eval_split_round100(t, x, split)>>
             ELSE <<>>
      [] p = "Valais" -> <<eval_split_round100(t, x, split)>>

\* mutant of Table_eval_split: the NoSplit policies do not assert split = 0
Table_eval_split_unasserted(t, p, x, split) ==
    CASE p = "Raw" -> <<eval_split_raw(t, x, split)>>
      [] p = "Round100" -> <<eval_split_round100(t, x, split)>>
      [] p = "DoubleRound100" -> <<eval_split_double_round100(t, x, split)>>
      [] p = "NoSplitRaw" -> <<eval_split_raw(t, x, split)>>
      [] p = "NoSplitRound100" -> <<eval_split_round100(t, x, split)>>
      [] p = "Valais" -> <<eval_split_raw(t, x, split)>>

\* Table::eval_split: <<v>> for the value returned, <<>> when an
\* assert_eq!(split, 0.0) fails and the call panics instead of returning
Table_eval_split(t, p, x, split) ==
    CASE p = "Raw" -> <<eval_split_raw(t, x, split)>>
      [] p = "Round100" -> <<eval_split_round100(t, x, split)>>
      [] p = "DoubleRound100" -> <<eval_split_double_round100(t, x, split)>>
      [] p = "NoSplitRaw" ->
             IF FEq(split, Zero) THEN <<eval_split_raw(t, x, split)>>
             ELSE <<>>
      [] p = "NoSplitRound100" ->
             IF FEq(split, Zero) THEN <<eval_split_round100(t, x, split)>>
             ELSE <<>>
      [] p = "Valais" -> <<eval_split_raw(t, x, split)>>

---------------------------------------------------------------------------
(* The inputs of the bounded model *)

\* a table has at most MaxRows brackets
MaxRows == 2

\* incomes run over 0, 50, ..., 50 * MaxIncome
MaxIncome == 6

SeqsUpTo(S, n) == UNION {[1..k -> S] : k \in 0..n}

BracketStarts == {F64(0), F64(100), F64(200)}

Input == [op |-> "Input"]
Const(c) == [op |-> "Const", c |-> c]
Log(f) == [op |-> "Log", a |-> f]
Sub(f, g) == [op |-> "Sub", a |-> f, b |-> g]
Div(f, g) == [op |-> "Div", a |-> f, b |-> g]

\* 100 / x is +inf at 0 and log x - 1 is -inf at 0
Formulas == {Div(Const(F64(100)), Input), Sub(Log(Input), Const(F64(1)))}

BundEntries ==
    {[bracket_start |-> s, base_tax |-> F64(r[1]), marginal_rate |-> F64(r[2])] :
        s \in BracketStarts, r \in {<<0, 5>>, <<5, 10>>}}

FormelEntries ==
    [bracket_start : BracketStarts, formula : Formulas]

FreiburgEntries ==
    [bracket_start : BracketStarts, tax_rate : {F64(2), F64(6)}]

ZuerichEntries ==
    [bracket_len : {F64(100), F64(200), Inf}, marginal_rate : {F64(2), F64(10)}]

\* the tables of the examples: Bund [{0, 0, 5%}, {10000, 500, 10%}] and
\* Zuerich [{10000, 2%}, {unbounded, 10%}]
BundExample ==
    [kind |-> "Bund",
     entries |-> <<[bracket_start |-> F64(0), base_tax |-> F64(0),
                    marginal_rate |-> F64(5)],
                   [bracket_start |-> F64(10000), base_tax |-> F64(500),
                    marginal_rate |-> F64(10)]>>]

ZuerichExample ==
    [kind |-> "Zuerich",
     entries |-> <<[bracket_len |-> F64(10000), marginal_rate |-> F64(2)],
                   [bracket_len |-> Inf, marginal_rate |-> F64(10)]>>]

\* RawTable: brackets in any order (construction does not sort or check them)
Tables ==
    {[kind |-> "Bund", entries |-> e] : e \in SeqsUpTo(BundEntries, MaxRows)}
    \cup {[kind |-> "Flattax", rate |-> r] : r \in {F64(5), F64(8)}}
    \cup {[kind |-> "Formel", entries |-> e] : e \in SeqsUpTo(FormelEntries, MaxRows)}
    \cup {[kind |-> "Freiburg", entries |-> e] : e \in SeqsUpTo(FreiburgEntries, MaxRows)}
    \cup {[kind |-> "Zuerich", entries |-> e] : e \in SeqsUpTo(ZuerichEntries, MaxRows)}
    \cup {BundExample, ZuerichExample}

\* the incomes a table is evaluated at: the small ones, and for the tables of
\* the examples also the incomes of the examples
Incomes(t) ==
    {F64(50 * k) : k \in 0..MaxIncome}
    \cup (IF t \in {BundExample, ZuerichExample}
          THEN {F64(5000), F64(15000), F64(20000)} ELSE {})

\* splitting ratios: none, 1.9 and 2
Splits == {Zero, Frac(19, 10), F64(2)}

---------------------------------------------------------------------------
(* The engine called through its public API *)

NoCall == [op |-> "none", x |-> Zero, split |-> Zero]
NoScale == <<>>
NoTable == [kind |-> "none"]

Init ==
    /\ table \in Tables
    /\ policy \in EvalPolicy
    /\ caller = "none"
    /\ call = NoCall
    /\ status = "idle"
    /\ result = <<>>
    /\ scale = NoScale
    /\ formula_text = <<>>
    /\ parsed = <<>>
    /\ built = <<>>

\* a call of Table::eval(x)
Eval(x) ==
    /\ status = "idle"
    /\ caller' = "api"
    /\ call' = [op |-> "eval", x |-> x, split |-> Zero]
    /\ result' = <<Table_eval(table, policy, x)>>
    /\ status' = "returned"
    /\ UNCHANGED <<table, policy, scale, formula_text, parsed, built>>

\* a call of Table::eval_split(x, split): it returns, or panics on the assertion
EvalSplit(x, split) ==
    /\ status = "idle"
    /\ caller' = "api"
    /\ call' = [op |-> "eval_split", x |-> x, split |-> split]
    /\ result' = Table_eval_split(table, policy, x, split)
    /\ status' = IF result' = <<>> THEN "panicked" ELSE "returned"
    /\ UNCHANGED <<table, policy, scale, formula_text, parsed, built>>

\* the caller takes the returned value; the immutable Table can be called again.
\* A panic is not recovered from.
Return ==
    /\ status = "returned"
    /\ caller' = "none"
    /\ call' = NoCall
    /\ status' = "idle"
    /\ result' = <<>>
    /\ UNCHANGED <<table, policy, scale, formula_text, parsed, built>>

Next ==
    \/ \E x \in Incomes(table) : Eval(x)
    \/ \E x \in Incomes(table), split \in Splits : EvalSplit(x, split)
    \/ Return

Spec == Init /\ [][Next]_vars

---------------------------------------------------------------------------
(* The evaluator of the wasm front end (wasm/src/table.rs), which          *)
(* deserializes the Tables the analysis crate serialized (same variants and *)
(* fields in the same order) and evaluates them with its own code           *)

\* wasm Formula::eval
RECURSIVE Wasm_Formula_eval(_, _)
Wasm_Formula_eval(f, x) ==
    CASE f.op = "Input" -> x
      [] f.op = "Const" -> f.c
      [] f.op = "Log"   -> FLn(Wasm_Formula_eval(f.a, x))
      [] f.op = "Add"   -> FAdd(Wasm_Formula_eval(f.a, x), Wasm_Formula_eval(f.b, x))
      [] f.op = "Sub"   -> FSub(Wasm_Formula_eval(f.a, x), Wasm_Formula_eval(f.b, x))
      [] f.op = "Mul"   -> FMul(Wasm_Formula_eval(f.a, x), Wasm_Formula_eval(f.b, x))
      [] f.op = "Div"   -> FDiv(Wasm_Formula_eval(f.a, x), Wasm_Formula_eval(f.b, x))

\* wasm TableBund::eval: the loop over self.0.iter().rev() from entry i down
\* (the call starts at the last entry)
RECURSIVE Wasm_TableBund_eval(_, _, _)
Wasm_TableBund_eval(entries, i, x) ==
    IF i = 0 THEN Zero
    ELSE IF FGe(x, entries[i].bracket_start)
         THEN FAdd(entries[i].base_tax,
                   FDiv(FMul(FSub(x, entries[i].bracket_start),
                             entries[i].marginal_rate),
                        F64(100)))
         ELSE Wasm_TableBund_eval(entries, i - 1, x)

\* wasm TableFlattax::eval
Wasm_TableFlattax_eval(rate, x) == FDiv(FMul(x, rate), F64(100))

\* wasm TableFormel::eval: the loop over self.0.iter().rev() from entry i down
RECURSIVE Wasm_TableFormel_eval(_, _, _)
Wasm_TableFormel_eval(entries, i, x) ==
    IF i = 0 THEN Zero
    ELSE IF FGe(x, entries[i].bracket_start)
         THEN Wasm_Formula_eval(entries[i].formula, x)
         ELSE Wasm_TableFormel_eval(entries, i - 1, x)

\* wasm TableFreiburg::eval: the loop over self.0.iter().enumerate().rev()
\* from entry i down; the source's index i is i - 1 here
RECURSIVE Wasm_TableFreiburg_eval(_, _, _)
Wasm_TableFreiburg_eval(entries, i, x) ==
    IF i = 0 THEN Zero
    ELSE IF FGe(x, entries[i].bracket_start)
         THEN LET entry == entries[i]
                  tax_rate ==
                      IF i = Len(entries) THEN entry.tax_rate
                      ELSE LET weight ==
                                   FDiv(FSub(x, entry.bracket_start),
                                        FSub(entries[i + 1].bracket_start,
                                             entry.bracket_start))
                           IN  FAdd(entry.tax_rate,
                                    FMul(weight,
                                         FSub(entries[i + 1].tax_rate,
                                              entry.tax_rate)))
              IN  FDiv(FMul(x, tax_rate), F64(100))
         ELSE Wasm_TableFreiburg_eval(entries, i - 1, x)

\* wasm TableZuerich::eval: the loop over &self.0 from entry i on, with the
\* mutable x and tax (the call starts at the first entry with tax 0)
RECURSIVE Wasm_TableZuerich_eval(_, _, _, _)
Wasm_TableZuerich_eval(entries, i, x, tax) ==
    IF i > Len(entries) THEN tax
    ELSE IF FLe(x, entries[i].bracket_len)
         THEN FAdd(tax, FDiv(FMul(x, entries[i].marginal_rate), F64(100)))
         ELSE Wasm_TableZuerich_eval(
                  entries, i + 1,
                  FSub(x, entries[i].bracket_len),
                  FAdd(tax, FDiv(FMul(entries[i].bracket_len,
                                      entries[i].marginal_rate),
                                 F64(100))))

\* wasm RawTable::eval_raw
Wasm_eval_raw(t, x) ==
    CASE t.kind = "Bund"     -> Wasm_TableBund_eval(t.entries, Len(t.entries), x)
      [] t.kind = "Flattax"  -> Wasm_TableFlattax_eval(t.rate, x)
      [] t.kind = "Formel"   -> Wasm_TableFormel_eval(t.entries, Len(t.entries), x)
      [] t.kind = "Freiburg" ->
             Wasm_TableFreiburg_eval(t.entries, Len(t.entries), x)
      [] t.kind = "Zuerich"  -> Wasm_TableZuerich_eval(t.entries, 1, x, Zero)

\* wasm RawTable::floor_100
Wasm_floor_100(x) == FMul(FFloor(FDiv(x, F64(100))), F64(100))

\* wasm RawTable::eval_round100
Wasm_eval_round100(t, x) == Wasm_eval_raw(t, Wasm_floor_100(x))

\* wasm RawTable::eval_split_raw
Wasm_eval_split_raw(t, x, split) ==
    IF FEq(split, Zero) THEN Wasm_eval_raw(t, x)
    ELSE FMul(Wasm_eval_raw(t, FDiv(x, split)), split)

\* wasm RawTable::eval_split_round100
Wasm_eval_split_round100(t, x, split) ==
    IF FEq(split, Zero) THEN Wasm_eval_round100(t, x)
    ELSE LET xx == Wasm_floor_100(x)
             yy == FDiv(xx, split)
             rate == IF FEq(yy, Zero) THEN Zero
                     ELSE FDiv(Wasm_eval_raw(t, yy), yy)
         IN  FMul(rate, xx)

\* wasm RawTable::eval_split_double_round100
Wasm_eval_split_double_round100(t, x, split) ==
    IF FEq(split, Zero) THEN Wasm_eval_round100(t, x)
    ELSE LET xx == Wasm_floor_100(x)
             yy == Wasm_floor_100(FDiv(xx, split))
             rate == IF FEq(yy, Zero) THEN Zero
                     ELSE FDiv(Wasm_eval_raw(t, yy), yy)
         IN  FMul(rate, xx)

\* wasm Table::eval
Wasm_Table_eval(t, p, x) ==
    CASE p \in {"Raw", "NoSplitRaw"} -> Wasm_eval_raw(t, x)
      [] p \in {"Round100", "DoubleRound100", "NoSplitRound100"} ->
             Wasm_eval_round100(t, x)
      [] p = "Valais" -> Wasm_eval_raw(t, x)

\* mutant of Wasm_Table_eval_split: Valais takes Round100's split path
Wasm_Table_eval_split_valaisRounds(t, p, x, split) ==
    CASE p = "Raw" -> <<Wasm_eval_split_raw(t, x, split)>>
      [] p = "Round100" -> <<Wasm_eval_split_round100(t, x, split)>>
      [] p = "DoubleRound100" -> <<Wasm_eval_split_double_round100(t, x, split)>>
      [] p = "NoSplitRaw" ->
             IF FEq(split, Zero) THEN <<Wasm_eval_split_raw(t, x, split)>>
             ELSE <<>>
      [] p = "NoSplitRound100" ->
             IF FEq(split, Zero) THEN <<Wasm_eval_split_round100(t, x, split)>>
             ELSE <<>>
      [] p = "Valais" -> <<Wasm_eval_split_round100(t, x, split)>>

\* wasm Table::eval_split: <<v>> for the value returned, <<>> when an
\* assert_eq!(split, 0.0) fails and the call panics instead of returning
Wasm_Table_eval_split(t, p, x, split) ==
    CASE p = "Raw" -> <<Wasm_eval_split_raw(t, x, split)>>
      [] p = "Round100" -> <<Wasm_eval_split_round100(t, x, split)>>
      [] p = "DoubleRound100" -> <<Wasm_eval_split_double_round100(t, x, split)>>
      [] p = "NoSplitRaw" ->
             IF FEq(split, Zero) THEN <<Wasm_eval_split_raw(t, x, split)>>
             ELSE <<>>
      [] p = "NoSplitRound100" ->
             IF FEq(split, Zero) THEN <<Wasm_eval_split_round100(t, x, split)>>
             ELSE <<>>
      [] p = "Valais" -> <<Wasm_eval_split_raw(t, x, split)>>

\* a call of the wasm Table::eval(x)
WasmEval(x) ==
    /\ status = "idle"
    /\ caller' = "wasm"
    /\ call' = [op |-> "eval", x |-> x, split |-> Zero]
    /\ result' = <<Wasm_Table_eval(table, policy, x)>>
    /\ status' = "returned"
    /\ UNCHANGED <<table, policy, scale, formula_text, parsed, built>>

\* a call of the wasm Table::eval_split(x, split): it returns, or panics on
\* the assertion
WasmEvalSplit(x, split) ==
    /\ status = "idle"
    /\ caller' = "wasm"
    /\ call' = [op |-> "eval_split", x |-> x, split |-> split]
    /\ result' = Wasm_Table_eval_split(table, policy, x, split)
    /\ status' = IF result' = <<>> THEN "panicked" ELSE "returned"
    /\ UNCHANGED <<table, policy, scale, formula_text, parsed, built>>

\* the same Table evaluated by the analysis crate and by the wasm front end
NextWasm ==
    \/ \E x \in Incomes(table) : Eval(x)
    \/ \E x \in Incomes(table), split \in Splits : EvalSplit(x, split)
    \/ \E x \in Incomes(table) : WasmEval(x)
    \/ \E x \in Incomes(table), split \in Splits : WasmEvalSplit(x, split)
    \/ Return

SpecWasm == Init /\ [][NextWasm]_vars

---------------------------------------------------------------------------
(* Properties of the engine *)

Returned(op) == status = "returned" /\ call.op = op
Called(op) == status \in {"returned", "panicked"} /\ call.op = op

\* floor(x / 100) * 100 for a finite x >= 0, stated without floor: the
\* multiple m of 100 with m <= x < m + 100
Floor100Of(x) ==
    CHOOSE m \in {F64(100 * k) : k \in 0..(x[1] \div (100 * x[2]) + 1)} :
        FLe(m, x) /\ FLt(x, FAdd(m, F64(100)))

RawPolicies == {"Raw", "NoSplitRaw", "Valais"}
RoundPolicies == {"Round100", "DoubleRound100", "NoSplitRound100"}

\* C1: Table.eval(x) is raw(x) under Raw, NoSplitRaw and Valais, and
\* raw(floor100(x)) under Round100, DoubleRound100 and NoSplitRound100.
C1_EvalByPolicy ==
    Returned("eval") =>
        /\ policy \in RawPolicies => result = <<eval_raw(table, call.x)>>
        /\ policy \in RoundPolicies =>
               result = <<eval_raw(table, Floor100Of(call.x))>>

\* an eval under a rounding policy whose result is not raw(x)
C1_Witness ==
    /\ Returned("eval")
    /\ policy \in RoundPolicies
    /\ result # <<eval_raw(table, call.x)>>

\* C2: zero-split identity: under each of the six policies eval_split(x, 0)
\* returns, and returns the value of eval(x).
C2_ZeroSplitIdentity ==
    (Called("eval_split") /\ FEq(call.split, Zero)) =>
        /\ status = "returned"
        /\ result = <<Table_eval(table, policy, call.x)>>

\* eval_split(x, 0) under a rounding policy, at an x where rounding changes
\* the tax
C2_Witness ==
    /\ Returned("eval_split")
    /\ FEq(call.split, Zero)
    /\ policy = "NoSplitRound100"
    /\ result # <<eval_raw(table, call.x)>>

\* C3: under Raw and under Valais eval_split(x, split) with split # 0 is
\* raw(x / split) * split, x not rounded, and the two policies agree on every
\* table, x and split.
C3_RawSplit ==
    (Called("eval_split") /\ policy \in {"Raw", "Valais"}) =>
        /\ ~FEq(call.split, Zero) =>
               result = <<FMul(eval_raw(table, FDiv(call.x, call.split)),
                               call.split)>>
        /\ Table_eval_split(table, "Raw", call.x, call.split)
               = Table_eval_split(table, "Valais", call.x, call.split)

\* a split call under Valais whose result differs from the one rounding
\* would give
C3_Witness ==
    /\ Returned("eval_split")
    /\ policy = "Valais"
    /\ ~FEq(call.split, Zero)
    /\ result # <<Zero>>
    /\ result # Table_eval_split(table, "Round100", call.x, call.split)

\* C4: under Round100 and DoubleRound100 with split # 0, eval_split is
\* rate * xx with xx = floor100(x), rate = raw(yy) / yy when yy # 0, and
\* yy = xx / split (Round100) or floor100(xx / split) (DoubleRound100); the
\* two policies differ only by that second flooring.
C4_RoundSplit ==
    (Called("eval_split") /\ policy \in {"Round100", "DoubleRound100"}
        /\ ~FEq(call.split, Zero)) =>
        LET xx == Floor100Of(call.x)
            q  == FDiv(xx, call.split)
            yy == IF policy = "Round100" THEN q ELSE Floor100Of(q)
        IN  /\ ~FEq(yy, Zero) =>
                   result = <<FMul(FDiv(eval_raw(table, yy), yy), xx)>>
            /\ Floor100Of(q) = q =>
                   Table_eval_split(table, "Round100", call.x, call.split)
                       = Table_eval_split(table, "DoubleRound100", call.x,
                                          call.split)

\* a split call under DoubleRound100 where the second flooring changes the tax
C4_Witness ==
    /\ Returned("eval_split")
    /\ policy = "DoubleRound100"
    /\ ~FEq(call.split, Zero)
    /\ ~FEq(Floor100Of(FDiv(Floor100Of(call.x), call.split)), Zero)
    /\ result # Table_eval_split(table, "Round100", call.x, call.split)

\* C5: under Round100 and DoubleRound100 with split # 0, when the
\* split-adjusted income yy is 0 the result is 0 (rate 0), never a non-finite
\* value, whatever raw(0) is.
C5_ZeroGuard ==
    (Called("eval_split") /\ policy \in {"Round100", "DoubleRound100"}
        /\ ~FEq(call.split, Zero)) =>
        LET xx == Floor100Of(call.x)
            q  == FDiv(xx, call.split)
            yy == IF policy = "Round100" THEN q ELSE Floor100Of(q)
        IN  FEq(yy, Zero) => result = <<Zero>>

\* yy is 0 although the rounded income is not, on a table whose raw(0) is
\* not finite
C5_Witness ==
    /\ Returned("eval_split")
    /\ policy = "DoubleRound100"
    /\ ~FEq(call.split, Zero)
    /\ ~FEq(Floor100Of(call.x), Zero)
    /\ FEq(Floor100Of(FDiv(Floor100Of(call.x), call.split)), Zero)
    /\ ~IsFinite(eval_raw(table, Zero))
    /\ result = <<Zero>>

\* C6: under NoSplitRaw and NoSplitRound100, eval_split with split # 0
\* returns no value: the assertion fails; with split = 0 it returns raw(x)
\* and raw(floor100(x)) respectively.
C6_NoSplitAsserts ==
    (Called("eval_split") /\ policy \in {"NoSplitRaw", "NoSplitRound100"}) =>
        IF FEq(call.split, Zero)
        THEN /\ status = "returned"
             /\ result = <<eval_raw(table,
                                    IF policy = "NoSplitRaw" THEN call.x
                                    ELSE Floor100Of(call.x))>>
        ELSE status = "panicked" /\ result = <<>>

\* a NoSplit table called with a non-zero split
C6_Witness ==
    /\ status = "panicked"
    /\ policy = "NoSplitRound100"
    /\ call.op = "eval_split"
    /\ ~FEq(call.split, Zero)

\* the brackets of a table, and the tax-free call eval(x) that shows raw(x)
Entries == table.entries
RawEval(kind) ==
    /\ Returned("eval")
    /\ policy \in RawPolicies
    /\ table.kind = kind

Ascending(e) ==
    \A i \in 1..(Len(e) - 1) : FLe(e[i].bracket_start, e[i + 1].bracket_start)

\* the brackets whose bracket_start is <= x
AtOrBelow(e, x) == {i \in 1..Len(e) : FLe(e[i].bracket_start, x)}

\* C8: Bund: on a table with ascending bracket_start values eval(x) is
\* base_tax + (x - bracket_start) * marginal_rate / 100 of the bracket with
\* the greatest bracket_start <= x, and 0 when x is below every bracket_start;
\* brackets {0,0,5%},{10000,500,10%} give 250 at 5000 and 1500 at 20000.
C8_BundEval ==
    (RawEval("Bund") /\ Ascending(Entries)) =>
        LET e == Entries
            x == call.x
            S == AtOrBelow(e, x)
        IN  /\ S = {} => result = <<Zero>>
            /\ S # {} =>
                   \E i \in S :
                       /\ \A j \in S : FLe(e[j].bracket_start, e[i].bracket_start)
                       /\ result =
                              <<FAdd(e[i].base_tax,
                                     FDiv(FMul(FSub(x, e[i].bracket_start),
                                               e[i].marginal_rate),
                                          F64(100)))>>
            /\ (table = BundExample /\ x = F64(5000)) => result = <<F64(250)>>
            /\ (table = BundExample /\ x = F64(20000)) => result = <<F64(1500)>>

\* the example table evaluated in its upper bracket
C8_Witness ==
    /\ RawEval("Bund")
    /\ table = BundExample
    /\ call.x = F64(20000)
    /\ result = <<F64(1500)>>

\* the sum of the widths, and of width * rate / 100, of brackets 1..k
RECURSIVE SumWidth(_, _)
SumWidth(e, k) ==
    IF k = 0 THEN Zero ELSE FAdd(SumWidth(e, k - 1), e[k].bracket_len)

RECURSIVE SumFull(_, _)
SumFull(e, k) ==
    IF k = 0 THEN Zero
    ELSE FAdd(SumFull(e, k - 1),
              FDiv(FMul(e[k].bracket_len, e[k].marginal_rate), F64(100)))

\* C9: Zuerich: eval(x) adds width * rate / 100 for every bracket that x
\* fully exceeds and remainder * rate / 100 for the first bracket whose width
\* is >= the remaining income, then stops; {10000, 2%},{unbounded, 10%} give
\* 700 at 15000.
C9_ZuerichEval ==
    RawEval("Zuerich") =>
        LET e == Entries
            x == call.x
            Rem(k) == FSub(x, SumWidth(e, k - 1))
            Stop == {k \in 1..Len(e) : FLe(Rem(k), e[k].bracket_len)}
        IN  /\ Stop = {} => result = <<SumFull(e, Len(e))>>
            /\ Stop # {} =>
                   LET k == CHOOSE k \in Stop : \A j \in Stop : k <= j
                   IN  result =
                           <<FAdd(SumFull(e, k - 1),
                                  FDiv(FMul(Rem(k), e[k].marginal_rate),
                                       F64(100)))>>
            /\ (table = ZuerichExample /\ x = F64(15000)) =>
                   result = <<F64(700)>>

\* the example table evaluated past its first bracket
C9_Witness ==
    /\ RawEval("Zuerich")
    /\ table = ZuerichExample
    /\ call.x = F64(15000)
    /\ result = <<F64(700)>>

\* C10: Freiburg: with i the last bracket whose bracket_start is <= x, the
\* rate is tax_rate[i] when i is the last bracket and otherwise
\* tax_rate[i] + (x - start[i]) / (start[i+1] - start[i]) *
\* (tax_rate[i+1] - tax_rate[i]); eval(x) is x * rate / 100, and 0 when x is
\* below every bracket_start.
C10_FreiburgEval ==
    RawEval("Freiburg") =>
        LET e == Entries
            x == call.x
            S == AtOrBelow(e, x)
        IN  /\ S = {} => result = <<Zero>>
            /\ S # {} =>
                   LET i == CHOOSE i \in S : \A j \in S : j <= i
                       rate ==
                           IF i = Len(e) THEN e[i].tax_rate
                           ELSE FAdd(e[i].tax_rate,
                                     FMul(FDiv(FSub(x, e[i].bracket_start),
                                               FSub(e[i + 1].bracket_start,
                                                    e[i].bracket_start)),
                                          FSub(e[i + 1].tax_rate,
                                               e[i].tax_rate)))
                   IN  result = <<FDiv(FMul(x, rate), F64(100))>>

\* an income strictly inside a bracket that is not the last, between two
\* different rates
C10_Witness ==
    /\ RawEval("Freiburg")
    /\ Len(Entries) = 2
    /\ FLt(Entries[1].bracket_start, call.x)
    /\ FLt(call.x, Entries[2].bracket_start)
    /\ Entries[1].tax_rate # Entries[2].tax_rate
    /\ result # <<FDiv(FMul(call.x, Entries[1].tax_rate), F64(100))>>

\* C27: Freiburg: whenever the reverse scan selects a bracket i that is not
\* the last one, start[i+1] > x >= start[i] whatever the table holds (sorted
\* or not), so the denominator start[i+1] - start[i] is strictly positive (no
\* division by zero), the weight lies in [0, 1) and the interpolated rate
\* lies between tax_rate[i] and tax_rate[i+1]: nothing is extrapolated (at
\* and beyond the last bracket's start the rate is the last bracket's).
C27_FreiburgNoExtrapolation ==
    (RawEval("Freiburg") /\ AtOrBelow(Entries, call.x) # {}) =>
        LET e == Entries
            x == call.x
            S == AtOrBelow(e, x)
            i == CHOOSE k \in S : \A j \in S : j <= k
        IN  /\ i = Len(e) => result = <<FDiv(FMul(x, e[i].tax_rate), F64(100))>>
            /\ i < Len(e) =>
                LET den == FSub(e[i + 1].bracket_start, e[i].bracket_start)
                    weight == FDiv(FSub(x, e[i].bracket_start), den)
                    rate == FAdd(e[i].tax_rate,
                                 FMul(weight,
                                      FSub(e[i + 1].tax_rate, e[i].tax_rate)))
                    between(a, b) == FLe(a, rate) /\ FLe(rate, b)
                IN  /\ FLt(x, e[i + 1].bracket_start)
                    /\ FLe(e[i].bracket_start, x)
                    /\ FLt(Zero, den)
                    /\ FLe(Zero, weight)
                    /\ FLt(weight, F64(1))
                    /\ \/ between(e[i].tax_rate, e[i + 1].tax_rate)
                       \/ between(e[i + 1].tax_rate, e[i].tax_rate)
                    /\ result = <<FDiv(FMul(x, rate), F64(100))>>
                    /\ IsFinite(result[1])

\* a table evaluated strictly inside its first bracket: the rate lies
\* strictly between the two rates
C27_Witness ==
    /\ RawEval("Freiburg")
    /\ Len(Entries) = 2
    /\ Entries[1].bracket_start = F64(0)
    /\ Entries[2].bracket_start = F64(200)
    /\ Entries[1].tax_rate = F64(2)
    /\ Entries[2].tax_rate = F64(6)
    /\ call.x = F64(150)
    /\ result = <<Frac(750, 100)>>

\* C28: under Round100 with split # 0 and floor100(x) # 0, eval_split(x, split)
\* is raw(floor100(x) / split) * split, which is what the Raw policy's
\* eval_split returns for the floored income; when floor100(x) = 0 Round100
\* returns 0 whatever raw(0) is.
C28_Round100IsRawOnFloored ==
    (Called("eval_split") /\ policy = "Round100" /\ ~FEq(call.split, Zero)) =>
        LET xx == Floor100Of(call.x)
        IN  /\ ~FEq(xx, Zero) =>
                   /\ result = <<FMul(eval_raw(table, FDiv(xx, call.split)),
                                      call.split)>>
                   /\ result = Table_eval_split(table, "Raw", xx, call.split)
            /\ FEq(xx, Zero) => result = <<Zero>>

\* a split call under Round100 at an income that is not a multiple of 100,
\* where rounding changes the tax
C28_Witness ==
    /\ Returned("eval_split")
    /\ policy = "Round100"
    /\ call.split = Frac(19, 10)
    /\ call.x = F64(250)
    /\ result = Table_eval_split(table, "Raw", F64(200), call.split)
    /\ result # Table_eval_split(table, "Raw", call.x, call.split)
    /\ result # <<Zero>>

\* under Round100 an income below 100 is taxed 0 although the Raw policy
\* taxes the floored income 0
C28_WitnessZero ==
    /\ Returned("eval_split")
    /\ policy = "Round100"
    /\ call.split = F64(2)
    /\ call.x = F64(50)
    /\ result = <<Zero>>
    /\ Table_eval_split(table, "Raw", Zero, call.split) # <<Zero>>

\* C29: Zuerich: in a table whose widths are all finite, income beyond the
\* sum of the widths is not taxed: for x greater than the total width eval(x)
\* is the sum of width * rate / 100 over all brackets, the value at
\* x = total width; and in any table no bracket after the first one whose
\* width is >= the remaining income contributes: the result is that of the
\* table cut off after that bracket.
C29_ZuerichBeyondLastBracket ==
    RawEval("Zuerich") =>
        LET e == Entries
            x == call.x
            total == SumWidth(e, Len(e))
            Rem(k) == FSub(x, SumWidth(e, k - 1))
            Stop == {k \in 1..Len(e) : FLe(Rem(k), e[k].bracket_len)}
        IN  /\ ((\A k \in 1..Len(e) : IsFinite(e[k].bracket_len))
                    /\ FLt(total, x)) =>
                   /\ Stop = {}
                   /\ result = <<SumFull(e, Len(e))>>
                   /\ result = <<eval_raw(table, total)>>
            /\ Stop # {} =>
                   LET k == CHOOSE k \in Stop : \A j \in Stop : k <= j
                   IN  result =
                           <<eval_raw([table EXCEPT !.entries = SubSeq(e, 1, k)],
                                      x)>>

\* two brackets of width 100 at 2% and 10%, evaluated at 250: 2 + 10
C29_Witness ==
    /\ RawEval("Zuerich")
    /\ Len(Entries) = 2
    /\ Entries[1] = [bracket_len |-> F64(100), marginal_rate |-> F64(2)]
    /\ Entries[2] = [bracket_len |-> F64(100), marginal_rate |-> F64(10)]
    /\ call.x = F64(250)
    /\ result = <<F64(12)>>
    /\ result = <<eval_raw(table, F64(200))>>

\* C30: the evaluator of the wasm front end and the evaluator of the analysis
\* crate are equivalent: for the same table contents and policy and every x
\* and split, the wasm Table::eval and Table::eval_split return the value
\* the analysis Table::eval and Table::eval_split return, and fail the
\* assertion exactly when they do.
C30_WasmEquivalent ==
    caller = "wasm" =>
        /\ call.op = "eval" =>
               /\ status = "returned"
               /\ result = <<Table_eval(table, policy, call.x)>>
        /\ call.op = "eval_split" =>
               /\ result = Table_eval_split(table, policy, call.x, call.split)
               /\ status = "panicked" <=>
                      Table_eval_split(table, policy, call.x, call.split) = <<>>

\* a split call of the wasm evaluator under Valais on a Formel table, at an
\* income where the rounding policies give another tax
C30_Witness ==
    /\ caller = "wasm"
    /\ Returned("eval_split")
    /\ policy = "Valais"
    /\ table.kind = "Formel"
    /\ ~FEq(call.split, Zero)
    /\ result # <<Zero>>
    /\ result = Table_eval_split(table, "Valais", call.x, call.split)
    /\ result # Table_eval_split(table, "Round100", call.x, call.split)

\* C11: Formel: eval(x) is the formula of the bracket with the highest
\* bracket_start <= x, evaluated at the full income x (the total tax, nothing
\* added from lower brackets), and 0 when x is below every bracket_start.
C11_FormelEval ==
    RawEval("Formel") =>
        LET e == Entries
            x == call.x
            S == AtOrBelow(e, x)
        IN  /\ S = {} => result = <<Zero>>
            /\ S # {} =>
                   \E i \in S :
                       /\ \A j \in S : FLe(e[j].bracket_start, e[i].bracket_start)
                       /\ result = <<Formula_eval(e[i].formula, x)>>

\* C24: floor100 is idempotent: for every x >= 0,
\* floor100(floor100(x)) = floor100(x); so under the rounding policies
\* eval(floor100(x)) = eval(x).
C24_Floor100Idempotent ==
    (Returned("eval") /\ FGe(call.x, Zero)) =>
        /\ floor_100(floor_100(call.x)) = floor_100(call.x)
        /\ policy \in RoundPolicies =>
               result = <<Table_eval(table, policy, floor_100(call.x))>>

\* eval under a rounding policy at an income that is not a multiple of 100,
\* where the tax at the rounded income differs from the unrounded tax
C24_Witness ==
    /\ Returned("eval")
    /\ policy = "Round100"
    /\ call.x = F64(150)
    /\ floor_100(call.x) = F64(100)
    /\ result = <<Table_eval(table, policy, F64(100))>>
    /\ result # <<eval_raw(table, call.x)>>

---------------------------------------------------------------------------
(* The formula parser (analysis/src/formula.rs).  A formula text is a       *)
(* sequence of characters, except that the two keywords "$wert$" and "log"  *)
(* are kept whole: tag() matches a keyword entirely or not at all, and no   *)
(* other token begins with one of their characters.  " " stands for every  *)
(* whitespace character (space, tab, CR, LF).  Texts hold no 'e' or 'E',    *)
(* so the exponent part of recognize_float is never entered.  A parser      *)
(* returns [ok |-> TRUE, rest, f] (the input left and the value parsed) or *)
(* [ok |-> FALSE] (a recoverable nom error).                                *)

Add(f, g) == [op |-> "Add", a |-> f, b |-> g]
Mul(f, g) == [op |-> "Mul", a |-> f, b |-> g]

Whitespace == {" "}
DigitChars == <<"0", "1", "2", "3", "4", "5", "6", "7", "8", "9">>
IsDigit(c) == \E k \in 1..Len(DigitChars) : DigitChars[k] = c
DigitValue(c) == (CHOOSE k \in 1..Len(DigitChars) : DigitChars[k] = c) - 1

ParseOk(rest, f) == [ok |-> TRUE, rest |-> rest, f |-> f]
ParseError == [ok |-> FALSE]

\* does the input start with the tag t
tag(t, i) == i # <<>> /\ Head(i) = t

\* the input after its leading whitespace
RECURSIVE multispace0(_)
multispace0_none(i) == i

multispace0(i) ==
    IF i # <<>> /\ Head(i) \in Whitespace THEN multispace0(Tail(i)) ELSE i

\* the number of leading digits
RECURSIVE digit0(_)
digit0(i) == IF i # <<>> /\ IsDigit(Head(i)) THEN 1 + digit0(Tail(i)) ELSE 0

\* the length of the float literal the input starts with, 0 when it starts
\* with none: [+-]? (digits ('.' digits?)? | '.' digits)
recognize_float(i) ==
    LET s == IF i # <<>> /\ Head(i) \in {"+", "-"} THEN 1 ELSE 0
        body == SubSeq(i, s + 1, Len(i))
        n == digit0(body)
        afterInt == SubSeq(body, n + 1, Len(body))
    IN  IF n > 0
        THEN IF tag(".", afterInt)
             THEN s + n + 1 + digit0(Tail(afterInt))
             ELSE s + n
        ELSE IF tag(".", body) /\ digit0(Tail(body)) > 0
             THEN s + 1 + digit0(Tail(body))
             ELSE 0

RECURSIVE Pow10(_)
Pow10(k) == IF k = 0 THEN 1 ELSE 10 * Pow10(k - 1)

\* the number a string of digits writes
RECURSIVE digits_value(_)
digits_value(ds) ==
    IF ds = <<>> THEN 0
    ELSE 10 * digits_value(SubSeq(ds, 1, Len(ds) - 1)) + DigitValue(ds[Len(ds)])

\* str::parse::<f64> of a recognised literal: sign, integer digits, fraction
parse_f64(lit) ==
    LET s == IF Head(lit) \in {"+", "-"} THEN 1 ELSE 0
        body == SubSeq(lit, s + 1, Len(lit))
        n == digit0(body)
        frac == IF n < Len(body) THEN SubSeq(body, n + 2, Len(body)) ELSE <<>>
        mag == digits_value(SubSeq(body, 1, n) \o frac)
    IN  Frac((IF Head(lit) = "-" THEN -1 ELSE 1) * mag, Pow10(Len(frac)))

\* left fold of the (operation, operand) pairs onto the initial operand
RECURSIVE fold_exprs(_, _)
fold_exprs_right(initial, remainder) ==
    IF remainder = <<>> THEN initial
    ELSE LET operation == Head(remainder)[1]
             e == fold_exprs(Head(remainder)[2], Tail(remainder))
         IN  CASE operation = "Add" -> Add(initial, e)
               [] operation = "Sub" -> Sub(initial, e)
               [] operation = "Mul" -> Mul(initial, e)
               [] operation = "Div" -> Div(initial, e)

fold_exprs(initial, remainder) ==
    IF remainder = <<>> THEN initial
    ELSE LET operation == Head(remainder)[1]
             e == Head(remainder)[2]
             acc == CASE operation = "Add" -> Add(initial, e)
                      [] operation = "Sub" -> Sub(initial, e)
                      [] operation = "Mul" -> Mul(initial, e)
                      [] operation = "Div" -> Div(initial, e)
         IN  fold_exprs(acc, Tail(remainder))

RECURSIVE expr(_), term(_), factor(_)
RECURSIVE expr_many(_, _), expr_next(_, _, _, _), term_many(_, _), term_next(_, _, _, _)

\* the closing ")" and the whitespace after it, e the expression inside
parens_close(e) ==
    IF ~e.ok THEN ParseError
    ELSE IF ~tag(")", e.rest) THEN ParseError
    ELSE ParseOk(multispace0(Tail(e.rest)), e.f)

\* "(" expr ")" with whitespace before and after
parens(i) ==
    IF ~tag("(", multispace0(i)) THEN ParseError
    ELSE parens_close(expr(Tail(multispace0(i))))

\* a float literal of n characters, 0 for none
const_of(i, n) ==
    IF n = 0 THEN ParseError
    ELSE ParseOk(multispace0(SubSeq(i, n + 1, Len(i))),
                 Const(parse_f64(SubSeq(i, 1, n))))

\* a float literal with whitespace before and after
factor_const(i) == const_of(multispace0(i), recognize_float(multispace0(i)))

\* the input token with whitespace before and after
factor_input(i) ==
    IF ~tag("$wert$", multispace0(i)) THEN ParseError
    ELSE ParseOk(multispace0(Tail(multispace0(i))), Input)

\* the Log of the factor f
log_of(f) == IF ~f.ok THEN ParseError ELSE ParseOk(f.rest, Log(f.f))

\* "log" with whitespace before and after, then one factor
factor_log_expr(i) ==
    IF ~tag("log", multispace0(i)) THEN ParseError
    ELSE log_of(expr(multispace0(Tail(multispace0(i)))))

factor_log(i) ==
    IF ~tag("log", multispace0(i)) THEN ParseError
    ELSE log_of(factor(multispace0(Tail(multispace0(i)))))

\* alt: the first alternative that parses
alt(a, b, c, d) == IF a.ok THEN a ELSE IF b.ok THEN b ELSE IF c.ok THEN c ELSE d

factor(i) == alt(parens(i), factor_const(i), factor_input(i), factor_log(i))

\* one round of many(0.., alt(...)): first is the result of the first
\* alternative and second of the second, ParseError when its tag is not there
term_next(acc, i, mul, div) ==
    IF mul.ok THEN term_many(Append(acc, <<"Mul", mul.f>>), mul.rest)
    ELSE IF div.ok THEN term_many(Append(acc, <<"Div", div.f>>), div.rest)
    ELSE [rest |-> i, list |-> acc]

\* many(0.., alt(("*" term, "/" term))): the pairs parsed and the input left
term_many_factor(acc, i) ==
    term_next(acc, i,
              IF tag("*", i) THEN factor(Tail(i)) ELSE ParseError,
              IF tag("/", i) THEN factor(Tail(i)) ELSE ParseError)

term_many(acc, i) ==
    term_next(acc, i,
              IF tag("*", i) THEN term(Tail(i)) ELSE ParseError,
              IF tag("/", i) THEN term(Tail(i)) ELSE ParseError)

\* the initial operand folded with the pairs that follow it
folded(initial, remainder) ==
    ParseOk(remainder.rest, fold_exprs(initial.f, remainder.list))

term_of(initial) ==
    IF ~initial.ok THEN ParseError
    ELSE folded(initial, term_many(<<>>, initial.rest))

term(i) == term_of(factor(i))

expr_next(acc, i, add, sub) ==
    IF add.ok THEN expr_many(Append(acc, <<"Add", add.f>>), add.rest)
    ELSE IF sub.ok THEN expr_many(Append(acc, <<"Sub", sub.f>>), sub.rest)
    ELSE [rest |-> i, list |-> acc]

\* many(0.., alt(("+" term, "-" term)))
expr_many(acc, i) ==
    expr_next(acc, i,
              IF tag("+", i) THEN term(Tail(i)) ELSE ParseError,
              IF tag("-", i) THEN term(Tail(i)) ELSE ParseError)

expr_of(initial) ==
    IF ~initial.ok THEN ParseError
    ELSE folded(initial, expr_many(<<>>, initial.rest))

expr(i) == expr_of(term(i))

\* the Result of try_from for the result r of expr
complete(r) ==
    IF r.ok
    THEN IF r.rest = <<>>
         THEN [ok |-> TRUE, f |-> r.f]
         ELSE [ok |-> FALSE, err |-> <<"Incomplete parsing", r.f, r.rest>>]
    ELSE [ok |-> FALSE, err |-> <<"Failed to parse">>]

\* Formula::try_from(text): [ok |-> TRUE, f] or [ok |-> FALSE, err]
Formula_try_from_noEmpty(text) == complete(expr(text))

Formula_try_from_partial(text) ==
    IF text = <<>> THEN [ok |-> TRUE, f |-> Const(Zero)]
    ELSE IF expr(text).ok THEN [ok |-> TRUE, f |-> expr(text).f]
    ELSE [ok |-> FALSE, err |-> <<"Failed to parse">>]

Formula_try_from(text) ==
    IF text = <<>> THEN [ok |-> TRUE, f |-> Const(Zero)] ELSE complete(expr(text))

---------------------------------------------------------------------------
(* Table construction (analysis/src/table.rs): a Scale carries a            *)
(* table_type and rows [formula, taxes, percent, amount]; a constructor     *)
(* returns [ok |-> TRUE, table, warn] or [ok |-> FALSE, err, warn], where   *)
(* err is the text of the error with the value it formats, and warn tells   *)
(* whether "No entry found for 0" was logged.                               *)

RowOk(entry) == [ok |-> TRUE, entry |-> entry]
RowErr(msg, arg) == [ok |-> FALSE, err |-> <<msg, arg>>]

\* try_collect() of the results of the rows: the entries in row order, or
\* the error of the first row that has one
try_collect_partial(results) ==
    LET Good(r) == r.ok
        good == SelectSeq(results, Good)
    IN  [ok |-> TRUE, entries |-> [i \in 1..Len(good) |-> good[i].entry]]

try_collect(results) ==
    LET bad == {i \in 1..Len(results) : ~results[i].ok}
    IN  IF bad = {}
        THEN [ok |-> TRUE, entries |-> [i \in 1..Len(results) |-> results[i].entry]]
        ELSE [ok |-> FALSE,
              err |-> results[CHOOSE i \in bad : \A j \in bad : i <= j].err]

Built(kind, r, warn) ==
    IF r.ok
    THEN [ok |-> TRUE, table |-> [kind |-> kind, entries |-> r.entries],
          warn |-> warn]
    ELSE [ok |-> FALSE, err |-> r.err, warn |-> warn]

TableBund_row(entry) ==
    IF entry.formula # <<>>
    THEN RowErr("Non-empty formula in table of type Bund", entry.formula)
    ELSE RowOk([bracket_start |-> entry.amount, base_tax |-> entry.taxes,
                marginal_rate |-> entry.percent])

\* is "No entry found for 0" logged: the first row passes the checks before
\* the warning and its amount is not 0
TableBund_warns(rows) ==
    /\ rows # <<>>
    /\ rows[1].formula = <<>>
    /\ ~FEq(rows[1].amount, Zero)

TableBund_try_from(rows) ==
    Built("Bund", try_collect([i \in 1..Len(rows) |-> TableBund_row(rows[i])]),
          TableBund_warns(rows))

TableFlattax_try_from_anyAmount(rows) ==
    IF Len(rows) # 1
    THEN [ok |-> FALSE, warn |-> FALSE,
          err |-> <<"Table of type Flattax doesn't have size 1", Len(rows)>>]
    ELSE IF rows[1].formula # <<>>
    THEN [ok |-> FALSE, warn |-> FALSE,
          err |-> <<"Non-empty formula in table of type Flattax", rows[1].formula>>]
    ELSE [ok |-> TRUE, warn |-> FALSE,
          table |-> [kind |-> "Flattax", rate |-> rows[1].percent]]

TableFlattax_try_from(rows) ==
    IF Len(rows) # 1
    THEN [ok |-> FALSE, warn |-> FALSE,
          err |-> <<"Table of type Flattax doesn't have size 1", Len(rows)>>]
    ELSE IF rows[1].formula # <<>>
    THEN [ok |-> FALSE, warn |-> FALSE,
          err |-> <<"Non-empty formula in table of type Flattax", rows[1].formula>>]
    ELSE IF ~FEq(rows[1].amount, Zero)
    THEN [ok |-> FALSE, warn |-> FALSE,
          err |-> <<"Non-empty amount in table of type Flattax", rows[1].amount>>]
    ELSE [ok |-> TRUE, warn |-> FALSE,
          table |-> [kind |-> "Flattax", rate |-> rows[1].percent]]

TableFormel_row(entry) ==
    IF ~FEq(entry.taxes, Zero)
    THEN RowErr("Non-empty taxes in table of type Formel", entry.taxes)
    ELSE IF ~FEq(entry.percent, Zero)
    THEN RowErr("Non-empty percent in table of type Formel", entry.percent)
    ELSE LET formula == Formula_try_from(entry.formula)
         IN  IF ~formula.ok THEN [ok |-> FALSE, err |-> formula.err]
             ELSE RowOk([bracket_start |-> entry.amount, formula |-> formula.f])

\* is "No entry found for 0" logged: the first row passes the checks before
\* the warning and its amount is not 0
TableFormel_warns(rows) ==
    /\ rows # <<>>
    /\ FEq(rows[1].taxes, Zero) /\ FEq(rows[1].percent, Zero)
    /\ ~FEq(rows[1].amount, Zero)

TableFormel_try_from(rows) ==
    Built("Formel", try_collect([i \in 1..Len(rows) |-> TableFormel_row(rows[i])]),
          TableFormel_warns(rows))

TableFreiburg_row_anyTaxes(entry) ==
    IF entry.formula # <<>>
    THEN RowErr("Non-empty formula in table of type Freiburg", entry.formula)
    ELSE RowOk([bracket_start |-> entry.amount, tax_rate |-> entry.percent])

TableFreiburg_row(entry) ==
    IF entry.formula # <<>>
    THEN RowErr("Non-empty formula in table of type Freiburg", entry.formula)
    ELSE IF ~FEq(entry.taxes, Zero)
    THEN RowErr("Non-empty taxes in table of type Freiburg", entry.taxes)
    ELSE RowOk([bracket_start |-> entry.amount, tax_rate |-> entry.percent])

\* is "No entry found for 0" logged: the first row passes the checks before
\* the warning and its amount is not 0
TableFreiburg_warns(rows) ==
    /\ rows # <<>>
    /\ rows[1].formula = <<>> /\ FEq(rows[1].taxes, Zero)
    /\ ~FEq(rows[1].amount, Zero)

TableFreiburg_try_from(rows) ==
    Built("Freiburg", try_collect([i \in 1..Len(rows) |-> TableFreiburg_row(rows[i])]),
          TableFreiburg_warns(rows))

TableZuerich_row_le(entry) ==
    IF entry.formula # <<>>
    THEN RowErr("Non-empty formula in table of type Zuerich", entry.formula)
    ELSE IF ~FEq(entry.taxes, Zero)
    THEN RowErr("Non-empty taxes in table of type Zuerich", entry.taxes)
    ELSE RowOk([bracket_len |-> IF FLe(entry.amount, F64(10000000))
                                THEN entry.amount ELSE Inf,
                marginal_rate |-> entry.percent])

TableZuerich_row(entry) ==
    IF entry.formula # <<>>
    THEN RowErr("Non-empty formula in table of type Zuerich", entry.formula)
    ELSE IF ~FEq(entry.taxes, Zero)
    THEN RowErr("Non-empty taxes in table of type Zuerich", entry.taxes)
    ELSE RowOk([bracket_len |-> IF FLt(entry.amount, F64(10000000))
                                THEN entry.amount ELSE Inf,
                marginal_rate |-> entry.percent])

TableZuerich_try_from(rows) ==
    Built("Zuerich", try_collect([i \in 1..Len(rows) |-> TableZuerich_row(rows[i])]),
          FALSE)

TableType == {"Unknown", "Bund", "Flattax", "Formel", "Freiburg", "Zuerich"}

\* RawTable::try_from(&Scale)
RawTable_try_from(s) ==
    CASE s.table_type = "Bund" -> TableBund_try_from(s.table)
      [] s.table_type = "Flattax" -> TableFlattax_try_from(s.table)
      [] s.table_type = "Formel" -> TableFormel_try_from(s.table)
      [] s.table_type = "Freiburg" -> TableFreiburg_try_from(s.table)
      [] s.table_type = "Zuerich" -> TableZuerich_try_from(s.table)
      [] s.table_type = "Unknown" ->
             [ok |-> FALSE, warn |-> FALSE,
              err |-> <<"Unsupported table type", s.table_type>>]

---------------------------------------------------------------------------
(* Building a Table from a Scale and evaluating it *)

\* the formula field of a row: empty, a formula, and a text that fails to parse
RowFormulas == {<<>>, <<"$wert$", "/", "2">>, <<"2", "+">>}

ScaleEntry ==
    [formula : RowFormulas, taxes : {F64(0), F64(5)},
     percent : {F64(0), F64(8)}, amount : {F64(0), F64(100)}]

\* the Zuerich scales whose rows have amounts around 10,000,000
ThresholdScales ==
    [table_type : {"Zuerich"},
     table : SeqsUpTo([formula : {<<>>}, taxes : {F64(0)},
                       percent : {F64(2), F64(10)},
                       amount : {F64(9999999), F64(10000000), F64(20000000)}],
                      MaxRows)]

Scales ==
    [table_type : TableType, table : SeqsUpTo(ScaleEntry, MaxRows)]
        \cup ThresholdScales

\* the incomes a built table is evaluated at; a table of a threshold scale is
\* also evaluated beyond 10,000,000
BuildIncomes ==
    {F64(0), F64(150), F64(10000)}
        \cup (IF scale \in ThresholdScales /\ scale.table # <<>>
              THEN {F64(25000000)} ELSE {})

\* here `scale` is the one Scale record handed to Table::try_from
InitBuild ==
    /\ scale \in Scales
    /\ table = NoTable
    /\ policy = "none"
    /\ caller = "none"
    /\ call = NoCall
    /\ status = "idle"
    /\ result = <<>>
    /\ formula_text = <<>>
    /\ parsed = <<>>
    /\ built = <<>>

\* Table::try_from(scale, policy): the Table, or the error of RawTable::try_from
Table_try_from(p) ==
    /\ built = <<>>
    /\ built' = <<RawTable_try_from(scale)>>
    /\ table' = IF built'[1].ok THEN built'[1].table ELSE NoTable
    /\ policy' = IF built'[1].ok THEN p ELSE "none"
    /\ UNCHANGED <<caller, call, status, result, scale, formula_text, parsed>>

NextBuild ==
    \/ Table_try_from("Raw")
    \/ \E x \in BuildIncomes : table # NoTable /\ Eval(x)
    \/ table # NoTable /\ Return

SpecBuild == InitBuild /\ [][NextBuild]_vars

---------------------------------------------------------------------------
(* Parsing a formula text and evaluating the Formula *)

\* a text has at most MaxTextLen characters, or is one of the examples
MaxTextLen == 3

Alphabet == {" ", "(", ")", "+", "-", "*", "/", ".", "2", "$wert$", "log"}

\* the text of the test parse_formula
ParseFormulaText ==
    <<"-", "0", ".", "8", "2", "7", "4", "2", "9", "*", " ", "$wert$", " ", "+",
      " ", "0", ".", "0", "8", "9", "7", "1", "8", "*", " ", "$wert$", " ", "*",
      " ", "(", "log", " ", "$wert$", " ", "-", " ", "1", ")", " ", "+", " ",
      "8", "2", "9", ".", "4", "1", "8", "7", "7", "0">>

\* the texts of the tests parse_input and parse_const
ParseInputTexts ==
    {<<"$wert$">>, <<" ", " ", "$wert$">>, <<"$wert$", " ", " ">>,
     <<" ", "$wert$", " ", " ">>}
ParseConstTexts ==
    {<<"1", "0", "0">>, <<"1", "2", ".", "3", "4">>,
     <<"-", "4", "2", ".", "4", "2">>}

\* the chains a o1 b o2 c of three operands joined by operators of ops
ChainOperands == {<<"$wert$">>, <<"2">>, <<"4">>}
Chains(ops) ==
    {a \o <<o1>> \o b \o <<o2>> \o c :
        a \in ChainOperands, b \in ChainOperands, c \in ChainOperands,
        o1 \in ops, o2 \in ops}

\* a - b - c and a - b + c written with spaces, and
\* c1 * x + c2 * x * (log x - 1) + c3 with short operands
ChainTexts ==
    Chains({"*", "/"}) \cup Chains({"+", "-"}) \cup Chains({"+", "*"})
    \cup {<<"$wert$", " ", "-", " ", "2", " ", "-", " ", "4">>,
          <<"$wert$", " ", "-", " ", "2", " ", "+", " ", "4">>,
          <<"3", "*", "$wert$", "+", "5", "*", "$wert$", "*", "(", "log",
            "$wert$", "-", "1", ")", "+", "7">>}

\* log 2 * x, log x - 1, (2 + 4) * x, 2 * (4 + x) and (2 + 4)
PrecedenceTexts ==
    {<<"log", " ", "2", " ", "*", " ", "$wert$">>,
     <<"log", " ", "$wert$", " ", "-", " ", "1">>,
     <<"(", "2", " ", "+", " ", "4", ")", " ", "*", " ", "$wert$">>,
     <<"2", " ", "*", " ", "(", "4", " ", "+", " ", "$wert$", ")">>,
     <<"(", "2", " ", "+", " ", "4", ")">>}

\* 2 / log x, log (2 - 4), 2 / (2 / x) and x * log x: a logarithm of a
\* non-positive value or a division by zero at the income 0
DomainTexts ==
    {<<"2", "/", "log", "$wert$">>,
     <<"log", "(", "2", "-", "4", ")">>,
     <<"2", "/", "(", "2", "/", "$wert$", ")">>,
     <<"$wert$", "*", "log", "$wert$">>}

Texts ==
    SeqsUpTo(Alphabet, MaxTextLen)
    \cup {ParseFormulaText} \cup ParseInputTexts \cup ParseConstTexts
    \cup ChainTexts \cup PrecedenceTexts \cup DomainTexts

\* the incomes a parsed formula is evaluated at (the formula of the test
\* parse_formula is only parsed: its values do not fit the model's integers)
FormulaIncomes(t) ==
    IF t = ParseFormulaText THEN {} ELSE {F64(0), F64(1), F64(100)}

InitParse ==
    /\ formula_text \in Texts
    /\ parsed = <<>>
    /\ table = NoTable
    /\ policy = "none"
    /\ caller = "none"
    /\ call = NoCall
    /\ status = "idle"
    /\ result = <<>>
    /\ scale = NoScale
    /\ built = <<>>

\* Formula::try_from(text)
TryFrom ==
    /\ parsed = <<>>
    /\ parsed' = <<Formula_try_from(formula_text)>>
    /\ UNCHANGED <<table, policy, caller, call, status, result, scale,
                   formula_text, built>>

\* Formula::eval(x) of the parsed formula
FormulaEval(x) ==
    /\ parsed # <<>>
    /\ parsed[1].ok
    /\ status = "idle"
    /\ call' = [op |-> "Formula::eval", x |-> x, split |-> Zero]
    /\ result' = <<Formula_eval(parsed[1].f, x)>>
    /\ status' = "returned"
    /\ UNCHANGED <<table, policy, caller, scale, formula_text, parsed, built>>

NextParse ==
    \/ TryFrom
    \/ \E x \in FormulaIncomes(formula_text) : FormulaEval(x)

SpecParse == InitParse /\ [][NextParse]_vars

---------------------------------------------------------------------------
(* The callers of the engine: check_tests, plot_year / get_diff and          *)
(* process_scales evaluate the Tables built from the loaded scales.  Each    *)
(* action below is one call of Table::eval or Table::eval_split made by one  *)
(* of them, with the arguments the caller passes; what the caller then does  *)
(* with the returned tax (cantonal rate, rounding, printing, colouring) is   *)
(* not modelled.  `scale` holds the response of data/scales-{year}.json, a    *)
(* sequence of Scale records [canton, group, splitting, table_type, table]   *)
(* where table holds the rows of the scale; canton "CH" stands for the       *)
(* federal scale (target Bund, canton_id 1).  Table::try_from is a pure      *)
(* function of the scale: the further field `built` of a record holds what   *)
(* RawTable::try_from returns for its table_type and rows, and a caller      *)
(* that calls Table::try_from(scale, policy) reads it there.                 *)

\* load::canton_policy: "Err" for an unknown canton
canton_policy(canton) ==
    CASE canton \in {"BL", "GE", "GR", "SO"} -> "Raw"
      [] canton = "UR" -> "NoSplitRaw"
      [] canton = "AG" -> "Round100"
      [] canton \in {"AI", "FR", "GL", "NE", "NW", "SG", "SH", "SZ", "TG", "VD"} ->
             "DoubleRound100"
      [] canton \in {"AR", "BE", "BS", "JU", "LU", "OW", "TI", "ZG", "ZH", "CH"} ->
             "NoSplitRound100"
      [] canton = "VS" -> "Valais"
      [] OTHER -> "Err"

\* load::is_single, load::is_married
is_single(group) ==
    ("Alle" \in group \/ "LedigAlleine" \in group) /\ "Verheiratet" \notin group

is_married(group) == "Alle" \in group \/ "Verheiratet" \in group

\* mutant of scale_step: a failed Table::try_from leaves the function with
\* its error
scale_step_abort(acc, s, p, b) ==
    IF acc.err \/ p = "Err" \/ ~b.ok THEN [acc EXCEPT !.err = TRUE]
    ELSE IF ~(is_single(s.group) \/ is_married(s.group)) THEN acc
    ELSE [err |-> FALSE,
          single |->
              IF is_single(s.group)
              THEN (s.canton :> [table |-> b.table, policy |-> p]) @@ acc.single
              ELSE acc.single,
          married |->
              IF is_married(s.group)
              THEN (s.canton :> [splitting |-> s.splitting,
                                 table |-> b.table, policy |-> p])
                       @@ acc.married
              ELSE acc.married]

\* the closure of try_for_each applied to the scale s: acc holds the maps
\* cantonal_scales_single (canton -> table) and cantonal_scales_married
\* (canton -> (splitting, table)), an insert replacing an earlier one; p is
\* canton_policy(canton), whose error leaves the function (the ? operator),
\* and b is the result of Table::try_from(scale, policy), whose error only
\* skips the scale (if let Ok(table))
scale_step(acc, s, p, b) ==
    IF acc.err \/ p = "Err" THEN [acc EXCEPT !.err = TRUE]
    ELSE IF ~((is_single(s.group) \/ is_married(s.group)) /\ b.ok) THEN acc
    ELSE [err |-> FALSE,
          single |->
              IF is_single(s.group)
              THEN (s.canton :> [table |-> b.table, policy |-> p]) @@ acc.single
              ELSE acc.single,
          married |->
              IF is_married(s.group)
              THEN (s.canton :> [splitting |-> s.splitting,
                                 table |-> b.table, policy |-> p])
                       @@ acc.married
              ELSE acc.married]

\* the two passes of get_cantonal_scales over scales[1..k]
RECURSIVE collect_scales(_, _)
collect_scales(scales, k) ==
    IF k = 0 THEN [err |-> FALSE, single |-> <<>>, married |-> <<>>]
    ELSE scale_step(collect_scales(scales, k - 1), scales[k],
                    canton_policy(scales[k].canton), scales[k].built)

\* load::get_cantonal_scales: an error (err), or the map canton ->
\* CantonalScale of the cantons that have both a single and a married table
get_cantonal_scales(scales) ==
    LET acc == collect_scales(scales, Len(scales))
    IN  [err |-> acc.err,
         map |-> IF acc.err THEN <<>>
                 ELSE [c \in (DOMAIN acc.single) \cap (DOMAIN acc.married) |->
                          [splitting |-> acc.married[c].splitting,
                           single |-> acc.single[c],
                           married |-> acc.married[c]]]]

\* one call of the engine by `who`: Table::eval(x) when op = "eval",
\* Table::eval_split(x, split) when op = "eval_split"
EngineCall(who, t, p, op, x, split) ==
    /\ status = "idle"
    /\ table' = t
    /\ policy' = p
    /\ caller' = who
    /\ call' = [op |-> op, x |-> x, split |-> IF op = "eval" THEN Zero ELSE split]
    /\ result' = IF op = "eval" THEN <<Table_eval(t, p, x)>>
                 ELSE Table_eval_split(t, p, x, split)
    /\ status' = IF result' = <<>> THEN "panicked" ELSE "returned"
    /\ UNCHANGED <<scale, formula_text, parsed, built>>

\* examples::check_tests, a test of a single person: table.eval(income)
check_tests_single(canton, x) ==
    LET loaded == get_cantonal_scales(scale)
        cs == loaded.map
    IN  /\ ~loaded.err
        /\ canton \in DOMAIN cs
        /\ EngineCall("check_tests", cs[canton].single.table,
                      cs[canton].single.policy, "eval", x, Zero)

\* examples::check_tests, a test of a married couple:
\* table.eval_split(income, canton_scale.splitting)
check_tests_married(canton, x) ==
    LET loaded == get_cantonal_scales(scale)
        cs == loaded.map
    IN  /\ ~loaded.err
        /\ canton \in DOMAIN cs
        /\ EngineCall("check_tests", cs[canton].married.table,
                      cs[canton].married.policy, "eval_split", x,
                      cs[canton].splitting)

\* plot::get_diff under plot_year and plot_income_tax (not for VS):
\* table_married.eval_split(x + y, splitting)
get_diff_married(canton, x, y) ==
    LET loaded == get_cantonal_scales(scale)
        cs == loaded.map
    IN  /\ ~loaded.err
        /\ canton \in DOMAIN cs
        /\ canton # "VS"
        /\ EngineCall("get_diff", cs[canton].married.table,
                      cs[canton].married.policy, "eval_split", FAdd(x, y),
                      cs[canton].splitting)

\* plot::get_diff: table_single.eval(x), table_single.eval(y)
get_diff_single(canton, x) ==
    LET loaded == get_cantonal_scales(scale)
        cs == loaded.map
    IN  /\ ~loaded.err
        /\ canton \in DOMAIN cs
        /\ canton # "VS"
        /\ EngineCall("get_diff", cs[canton].single.table,
                      cs[canton].single.policy, "eval", x, Zero)

\* the scales before scales[k] do not make process_scales leave with an error
NoPolicyError(k) == \A j \in 1..k : canton_policy(scale[j].canton) # "Err"

\* main::process_scales on scale k (federal, or cantonal and not VS), whatever
\* its group, when Table::try_from succeeds: table.eval(x) for the printed
\* incomes
process_scales_eval(k, x) ==
    /\ NoPolicyError(k)
    /\ scale[k].canton # "VS"
    /\ scale[k].built.ok
    /\ EngineCall("process_scales", scale[k].built.table,
                  canton_policy(scale[k].canton), "eval", x, Zero)

\* main::process_scales on scale k: table.eval_split(x, scale.splitting)
process_scales_eval_split(k, x) ==
    /\ NoPolicyError(k)
    /\ scale[k].canton # "VS"
    /\ scale[k].built.ok
    /\ EngineCall("process_scales", scale[k].built.table,
                  canton_policy(scale[k].canton), "eval_split", x,
                  scale[k].splitting)

Cantons ==
    {"AG", "AI", "AR", "BE", "BL", "BS", "FR", "GE", "GL", "GR", "JU", "LU",
     "NE", "NW", "OW", "SG", "SH", "SO", "SZ", "TG", "TI", "UR", "VD", "VS",
     "ZG", "ZH", "CH"}

\* the cantons of the data: those canton_policy knows and one it does not
DataCantons == Cantons \cup {"XX"}

Groups == {{"Alle"}, {"LedigAlleine"}, {"Verheiratet"}, {"LedigMitKinder"}}

\* the rows of the example Bund scale: [{0, 0, 5%}, {10000, 500, 10%}]
BundExampleRows ==
    <<[formula |-> <<>>, taxes |-> F64(0), percent |-> F64(5), amount |-> F64(0)],
      [formula |-> <<>>, taxes |-> F64(500), percent |-> F64(10),
       amount |-> F64(10000)]>>

CallerTables == {[table_type |-> "Bund", table |-> BundExampleRows]}

\* the Scale records of canton c with the table types and rows of tables
ScalesFor(c, tables) ==
    {[canton |-> c, group |-> g, splitting |-> sp,
      table_type |-> t.table_type, table |-> t.table,
      built |-> RawTable_try_from(t)] :
        g \in Groups, sp \in Splits, t \in tables}

\* the scales a response can hold for canton c
ScalesOf(c) == ScalesFor(c, CallerTables)

\* the incomes process_scales prints
PrintedIncomes ==
    {F64(10000), F64(20000), F64(50000), F64(100000), F64(200000)}

\* incomes of test requests and of plotted points
TestIncomes == {F64(150), F64(50000)}

InitCallers ==
    /\ \E c \in DataCantons :
           \E a \in ScalesOf(c) :
               \/ scale = <<a>>
               \/ \E b \in ScalesOf(c) : scale = <<a, b>>
    /\ table = NoTable
    /\ policy = "none"
    /\ caller = "none"
    /\ call = NoCall
    /\ status = "idle"
    /\ result = <<>>
    /\ formula_text = <<>>
    /\ parsed = <<>>
    /\ built = <<>>

\* the caller takes the returned tax and goes on to its next call
caller_continues ==
    /\ status = "returned"
    /\ table' = NoTable
    /\ policy' = "none"
    /\ caller' = "none"
    /\ call' = NoCall
    /\ status' = "idle"
    /\ result' = <<>>
    /\ UNCHANGED <<scale, formula_text, parsed, built>>

\* the cantons of the loaded scales (a test or a plot of another canton finds
\* no CantonalScale and calls nothing)
LoadedCantons == {scale[k].canton : k \in 1..Len(scale)}

NextCallers ==
    \/ \E c \in LoadedCantons, x \in TestIncomes : check_tests_single(c, x)
    \/ \E c \in LoadedCantons, x \in TestIncomes : check_tests_married(c, x)
    \/ \E c \in LoadedCantons, x \in TestIncomes, y \in TestIncomes :
           get_diff_married(c, x, y)
    \/ \E c \in LoadedCantons, x \in TestIncomes : get_diff_single(c, x)
    \/ \E k \in 1..Len(scale), x \in PrintedIncomes : process_scales_eval(k, x)
    \/ \E k \in 1..Len(scale), x \in PrintedIncomes :
           process_scales_eval_split(k, x)
    \/ caller_continues

SpecCallers == InitCallers /\ [][NextCallers]_vars

\* C7: in every execution of the callers (example checking, report printing,
\* plotting) a Table whose policy is NoSplitRaw or NoSplitRound100 is passed
\* to eval_split with a splitting ratio of exactly 0 only, so the assertion
\* never fails, whatever splitting the loaded scale data carries.
C7_CallersPassZeroSplit ==
    (caller \in {"check_tests", "get_diff", "process_scales"}
        /\ call.op = "eval_split"
        /\ policy \in {"NoSplitRaw", "NoSplitRound100"}) =>
        FEq(call.split, Zero) /\ status # "panicked"

---------------------------------------------------------------------------
(* Compiling the scales of a year: get_cantonal_scales over a response that *)
(* holds scales of several cantons, some of which fail to build, and the     *)
(* tests of check_tests evaluated on the compiled tables                     *)

\* a response holds at most MaxScales scales
MaxScales == 2

\* the scales of a response, each with a splitting of 2: of canton BL the
\* example scale and a Formel scale whose formula does not parse, of canton
\* AG the example scale and a Flattax scale of the wrong shape (no row), for
\* single people, married people or both; and one scale of a canton that
\* canton_policy does not know
LoadScales ==
    {s \in ScalesFor("BL", CallerTables
                             \cup {[table_type |-> "Formel",
                                    table |-> <<[formula |-> <<"2", "+">>,
                                                 taxes |-> F64(0),
                                                 percent |-> F64(0),
                                                 amount |-> F64(0)]>>]})
           \cup ScalesFor("AG", CallerTables
                                    \cup {[table_type |-> "Flattax",
                                           table |-> <<>>]})
           \cup ScalesFor("XX", CallerTables) :
        /\ s.splitting = F64(2)
        /\ s.group # {"LedigMitKinder"}
        /\ s.canton = "XX" => s.group = {"Alle"}}

InitLoad ==
    /\ scale \in SeqsUpTo(LoadScales, MaxScales)
    /\ scale # <<>>
    /\ table = NoTable
    /\ policy = "none"
    /\ caller = "none"
    /\ call = NoCall
    /\ status = "idle"
    /\ result = <<>>
    /\ formula_text = <<>>
    /\ parsed = <<>>
    /\ built = <<>>

NextLoad ==
    \/ \E c \in LoadedCantons, x \in TestIncomes : check_tests_single(c, x)
    \/ \E c \in LoadedCantons, x \in TestIncomes : check_tests_married(c, x)
    \/ caller_continues

SpecLoad == InitLoad /\ [][NextLoad]_vars

---------------------------------------------------------------------------
(* Properties of table construction *)

\* Table::try_from has returned for a scale of the given table type
BuiltFrom(type) == built # <<>> /\ scale.table_type = type
Rows == scale.table

\* C12: Flattax: construction succeeds exactly when the table has exactly one
\* row whose formula is empty and whose amount is 0; the table then stores
\* the row's percent as its rate and eval(x) = x * percent / 100 (rate 8
\* gives 800 at 10000).
C12_FlattaxConstruction ==
    BuiltFrom("Flattax") =>
        /\ built[1].ok <=>
               (Len(Rows) = 1 /\ Rows[1].formula = <<>> /\ Rows[1].amount = Zero)
        /\ built[1].ok =>
               /\ table = [kind |-> "Flattax", rate |-> Rows[1].percent]
               /\ Returned("eval") =>
                      result = <<FDiv(FMul(call.x, Rows[1].percent), F64(100))>>
               /\ (Returned("eval") /\ Rows[1].percent = F64(8)
                       /\ call.x = F64(10000)) => result = <<F64(800)>>

\* a one-row scale with percent 8 (and non-zero taxes) built and evaluated
C12_Witness ==
    /\ BuiltFrom("Flattax")
    /\ built[1].ok
    /\ Rows[1].percent = F64(8)
    /\ Rows[1].taxes # Zero
    /\ Returned("eval")
    /\ call.x = F64(10000)
    /\ result = <<F64(800)>>

\* the bracket the scan of eval selects for x: the last one with
\* bracket_start <= x
Selected(e, x) ==
    {i \in AtOrBelow(e, x) : \A j \in AtOrBelow(e, x) : j <= i}

\* C18: the empty formula text is not a parse error: try_from("") is
\* Const(0), so a Formel table whose rows have an empty formula is built, a
\* bracket with an empty formula holds Const(0), and eval is 0 for every
\* income of that bracket.
C18_EmptyFormulaIsZero ==
    BuiltFrom("Formel") =>
        /\ (\A i \in 1..Len(Rows) :
                /\ Rows[i].formula = <<>>
                /\ Rows[i].taxes = Zero
                /\ Rows[i].percent = Zero) => built[1].ok
        /\ built[1].ok =>
               /\ \A i \in 1..Len(Rows) :
                      Rows[i].formula = <<>> =>
                          table.entries[i].formula = Const(Zero)
               /\ Returned("eval") =>
                      \A i \in Selected(table.entries, call.x) :
                          Rows[i].formula = <<>> => result = <<Zero>>

\* a table of a bracket with a formula and a bracket with an empty formula,
\* evaluated in the latter
C18_Witness ==
    /\ BuiltFrom("Formel")
    /\ built[1].ok
    /\ Len(Rows) = 2
    /\ Rows[1].formula # <<>>
    /\ Rows[2].formula = <<>>
    /\ Rows[2].amount = F64(100)
    /\ Returned("eval")
    /\ call.x = F64(150)
    /\ result = <<Zero>>

\* the rows that break a rule of the table type
HasFormula == {i \in 1..Len(Rows) : Rows[i].formula # <<>>}
HasTaxes == {i \in 1..Len(Rows) : Rows[i].taxes # Zero}

\* the entry a row becomes
EntryOf(type, row) ==
    CASE type = "Bund" ->
             [bracket_start |-> row.amount, base_tax |-> row.taxes,
              marginal_rate |-> row.percent]
      [] type = "Freiburg" ->
             [bracket_start |-> row.amount, tax_rate |-> row.percent]
      [] type = "Zuerich" ->
             [bracket_len |-> IF FLt(row.amount, F64(10000000))
                              THEN row.amount ELSE Inf,
              marginal_rate |-> row.percent]

\* C19: construction of a Bund, Freiburg or Zuerich table fails if any row
\* has a non-empty formula, and of a Freiburg or Zuerich table also if any
\* row has non-zero taxes; when no row breaks these rules it succeeds with
\* one entry per row in row order, and a non-zero amount on the first row
\* never makes it fail.
C19_RowRules ==
    \A type \in {"Bund", "Freiburg", "Zuerich"} :
        BuiltFrom(type) =>
            LET broken == HasFormula \cup (IF type = "Bund" THEN {} ELSE HasTaxes)
            IN  /\ broken # {} => ~built[1].ok
                /\ broken = {} =>
                       /\ built[1].ok
                       /\ table.kind = type
                       /\ Len(table.entries) = Len(Rows)
                       /\ \A i \in 1..Len(Rows) :
                              table.entries[i] = EntryOf(type, Rows[i])
                /\ (type # "Zuerich" /\ broken = {} /\ Rows # <<>>
                        /\ Rows[1].amount # Zero) => built[1].warn

\* a Freiburg table of two different rows, the first with a non-zero amount
C19_Witness ==
    /\ BuiltFrom("Freiburg")
    /\ built[1].ok
    /\ built[1].warn
    /\ Len(Rows) = 2
    /\ Rows[1].amount = F64(100)
    /\ Rows[2].amount = Zero
    /\ Rows[1].percent # Rows[2].percent
    /\ table.entries[1].bracket_start = F64(100)

\* a row that passes the checks of every table type
CleanRow == [formula |-> <<>>, taxes |-> Zero, percent |-> Zero, amount |-> Zero]

\* the scale with a clean row put before its rows: every offending row is
\* one index further down
Shifted == [scale EXCEPT !.table = <<CleanRow>> \o Rows]

\* the field a row of the table type is rejected for, "" for none
OffendingField(type, row) ==
    CASE type \in {"Bund", "Flattax"} /\ row.formula # <<>> -> "formula"
      [] type = "Flattax" /\ row.formula = <<>> /\ row.amount # Zero -> "amount"
      [] type = "Formel" /\ row.taxes # Zero -> "taxes"
      [] type = "Formel" /\ row.taxes = Zero /\ row.percent # Zero -> "percent"
      [] type \in {"Freiburg", "Zuerich"} /\ row.formula # <<>> -> "formula"
      [] type \in {"Freiburg", "Zuerich"} /\ row.formula = <<>>
             /\ row.taxes # Zero -> "taxes"
      [] OTHER -> ""

\* the first row the table type rejects for one of its fields, 0 for none
FirstOffending(type) ==
    LET bad == {i \in 1..Len(Rows) : OffendingField(type, Rows[i]) # ""}
    IN  IF bad = {} THEN 0 ELSE CHOOSE i \in bad : \A j \in bad : i <= j

\* C20: on a validation failure each of the five table variants reports a
\* distinct error that identifies the offending field and the index of the
\* offending row: the error names the variant and the field, and it is
\* another error when the offending row stands at another index.
C20_RowIndexedError ==
    \A type \in {"Bund", "Flattax", "Formel", "Freiburg", "Zuerich"} :
        (BuiltFrom(type) /\ ~built[1].ok /\ FirstOffending(type) # 0
             /\ (type = "Flattax" => Len(Rows) = 1)
             /\ (type = "Formel" =>
                     \A i \in 1..(FirstOffending(type) - 1) :
                         Formula_try_from(Rows[i].formula).ok)) =>
            LET i == FirstOffending(type)
                field == OffendingField(type, Rows[i])
            IN  /\ built[1].err[1] =
                       "Non-empty " \o field \o " in table of type " \o type
                /\ built[1].err[2] = Rows[i][field]
                /\ RawTable_try_from(Shifted).err # built[1].err

\* the rows a Formel table rejects
FormelBroken ==
    {i \in 1..Len(Rows) :
        \/ Rows[i].taxes # Zero
        \/ Rows[i].percent # Zero
        \/ ~Formula_try_from(Rows[i].formula).ok}

\* C21: Formel construction fails if any row has non-zero taxes or non-zero
\* percent or a formula text that fails to parse; one failing row makes the
\* whole construction fail, no table of the remaining brackets is produced.
C21_FormelAllOrNothing ==
    BuiltFrom("Formel") =>
        /\ FormelBroken # {} =>
               /\ ~built[1].ok
               /\ table = NoTable
               /\ policy = "none"
        /\ FormelBroken = {} =>
               /\ built[1].ok
               /\ table.kind = "Formel"
               /\ Len(table.entries) = Len(Rows)
               /\ \A i \in 1..Len(Rows) :
                      /\ table.entries[i].bracket_start = Rows[i].amount
                      /\ table.entries[i].formula =
                             Formula_try_from(Rows[i].formula).f

\* a valid first row followed by a row whose formula does not parse
C21_Witness ==
    /\ BuiltFrom("Formel")
    /\ Len(Rows) = 2
    /\ FormelBroken = {2}
    /\ Rows[2].taxes = Zero
    /\ Rows[2].percent = Zero
    /\ ~built[1].ok
    /\ built[1].err[1] = "Incomplete parsing"
    /\ table = NoTable

\* the rows of the scale whose amount is at least 10,000,000
Unbounded == {i \in 1..Len(Rows) : Rows[i].amount[1] >= 10000000 * Rows[i].amount[2]}

\* C22: Zuerich construction: a row's amount becomes the bracket's width
\* unchanged when it is below 10,000,000 and +infinity when it is 10,000,000
\* or more (10,000,000 itself is unbounded); an evaluation that reaches the
\* first unbounded bracket charges all the remaining income at that
\* bracket's rate.
C22_ZuerichThreshold ==
    (BuiltFrom("Zuerich") /\ built[1].ok) =>
        LET e == table.entries
            Rem(k) == FSub(call.x, SumWidth(e, k - 1))
        IN  /\ Len(e) = Len(Rows)
            /\ \A i \in 1..Len(Rows) :
                   /\ e[i].marginal_rate = Rows[i].percent
                   /\ i \notin Unbounded => e[i].bracket_len = Rows[i].amount
                   /\ i \in Unbounded => e[i].bracket_len = Inf
            /\ (Returned("eval") /\ Unbounded # {}) =>
                   LET k == CHOOSE k \in Unbounded : \A j \in Unbounded : k <= j
                   IN  (\A j \in 1..(k - 1) : FLt(e[j].bracket_len, Rem(j))) =>
                           result =
                               <<FAdd(SumFull(e, k - 1),
                                      FDiv(FMul(Rem(k), e[k].marginal_rate),
                                           F64(100)))>>

\* a table whose second row has the amount 10,000,000, evaluated beyond the
\* first bracket and beyond 10,000,000: 9,999,999 at 2% and 15,000,001 at 10%
C22_Witness ==
    /\ BuiltFrom("Zuerich")
    /\ built[1].ok
    /\ Len(Rows) = 2
    /\ Rows[1].amount = F64(9999999)
    /\ Rows[1].percent = F64(2)
    /\ Rows[2].amount = F64(10000000)
    /\ Rows[2].percent = F64(10)
    /\ table.entries[1].bracket_len = F64(9999999)
    /\ table.entries[2].bracket_len = Inf
    /\ Returned("eval")
    /\ call.x = F64(25000000)
    /\ result = <<Frac(170000008, 100)>>

\* C23: every successfully constructed RawTable has its entries in ascending
\* order of bracket boundary (the bracket_start of a Bund, Formel or Freiburg
\* entry), for every sequence of rows that construction accepts.
C23_EntriesAscending ==
    \A type \in {"Bund", "Formel", "Freiburg"} :
        (BuiltFrom(type) /\ built[1].ok) => Ascending(table.entries)

---------------------------------------------------------------------------
(* Properties of the formula parser *)

\* Formula::try_from has returned
Parsed == parsed # <<>>
ParsedOk == Parsed /\ parsed[1].ok

\* how often the character c occurs in the text t
RECURSIVE CharCount(_, _)
CharCount(t, c) ==
    IF t = <<>> THEN 0
    ELSE (IF Head(t) = c THEN 1 ELSE 0) + CharCount(Tail(t), c)

\* how many nodes of the formula f have the operation op
RECURSIVE NodeCount(_, _)
NodeCount(f, op) ==
    (IF f.op = op THEN 1 ELSE 0)
    + (IF f.op \in {"Log", "Add", "Sub", "Mul", "Div"} THEN NodeCount(f.a, op) ELSE 0)
    + (IF f.op \in {"Add", "Sub", "Mul", "Div"} THEN NodeCount(f.b, op) ELSE 0)

\* C13: a non-empty text parses only if the grammar consumes all of it: when
\* expr fails or leaves a remainder, try_from returns an error; a Formula
\* returned is the one expr built from the whole text, so every input token,
\* "log", "*" and "/" of the text is a node of it (never a partial Formula).
C13_WholeTextOrError ==
    (Parsed /\ formula_text # <<>>) =>
        LET r == expr(formula_text)
        IN  /\ parsed[1].ok <=> (r.ok /\ r.rest = <<>>)
            /\ parsed[1].ok =>
                   /\ parsed[1].f = r.f
                   /\ NodeCount(parsed[1].f, "Input") = CharCount(formula_text, "$wert$")
                   /\ NodeCount(parsed[1].f, "Log") = CharCount(formula_text, "log")
                   /\ NodeCount(parsed[1].f, "Mul") = CharCount(formula_text, "*")
                   /\ NodeCount(parsed[1].f, "Div") = CharCount(formula_text, "/")

\* a text whose leading expression leaves a remainder holding an input token
C13_Witness ==
    /\ Parsed
    /\ ~parsed[1].ok
    /\ parsed[1].err[1] = "Incomplete parsing"
    /\ CharCount(parsed[1].err[3], "$wert$") = 1

\* the text t is one factor and nothing else
IsFactor(t) == factor(t).ok /\ factor(t).rest = <<>>
IsTerm(t) == term(t).ok /\ term(t).rest = <<>>

\* the node an operator character builds
OpNode(c, f, g) ==
    CASE c = "+" -> Add(f, g)
      [] c = "-" -> Sub(f, g)
      [] c = "*" -> Mul(f, g)
      [] c = "/" -> Div(f, g)

\* the parts of the text before position p, between p and q, and after q
Before(p) == SubSeq(formula_text, 1, p - 1)
Between(p, q) == SubSeq(formula_text, p + 1, q - 1)
After(q) == SubSeq(formula_text, q + 1, Len(formula_text))

\* C14: a chain of multiplicative operators nests right to left: for factors
\* a, b, c the text a/b/c parses to Div(a, Div(b, c)), a*b/c to
\* Mul(a, Div(b, c)) and a/b*c to Div(a, Mul(b, c)), never to the left-nested
\* form; "$wert$/2/4" evaluates to x * 2.
C14_MulChainNestsRight ==
    Parsed =>
        /\ \A p, q \in 1..Len(formula_text) :
               (/\ p < q
                /\ formula_text[p] \in {"*", "/"}
                /\ formula_text[q] \in {"*", "/"}
                /\ IsFactor(Before(p))
                /\ IsFactor(Between(p, q))
                /\ IsFactor(After(q))) =>
                   /\ parsed[1].ok
                   /\ parsed[1].f =
                          OpNode(formula_text[p], factor(Before(p)).f,
                                 OpNode(formula_text[q], factor(Between(p, q)).f,
                                        factor(After(q)).f))
                   /\ parsed[1].f #
                          OpNode(formula_text[q],
                                 OpNode(formula_text[p], factor(Before(p)).f,
                                        factor(Between(p, q)).f),
                                 factor(After(q)).f)
        /\ (formula_text = <<"$wert$", "/", "2", "/", "4">> /\ result # <<>>) =>
               /\ parsed[1].f = Div(Input, Div(Const(F64(2)), Const(F64(4))))
               /\ result = <<FMul(call.x, F64(2))>>

\* "$wert$/2/4" parsed and evaluated at 100
C14_Witness ==
    /\ ParsedOk
    /\ formula_text = <<"$wert$", "/", "2", "/", "4">>
    /\ status = "returned"
    /\ call.x = F64(100)
    /\ result = <<F64(200)>>

\* C15: a chain of additive operators folds strictly left to right: for
\* terms a, b, c the text a - b - c parses to Sub(Sub(a, b), c) and
\* a - b + c to Add(Sub(a, b), c).
C15_AddChainFoldsLeft ==
    Parsed =>
        /\ \A p, q \in 1..Len(formula_text) :
               (/\ p < q
                /\ formula_text[p] \in {"+", "-"}
                /\ formula_text[q] \in {"+", "-"}
                /\ IsTerm(Before(p))
                /\ IsTerm(Between(p, q))
                /\ IsTerm(After(q))) =>
                   /\ parsed[1].ok
                   /\ parsed[1].f =
                          OpNode(formula_text[q],
                                 OpNode(formula_text[p], term(Before(p)).f,
                                        term(Between(p, q)).f),
                                 term(After(q)).f)
        /\ formula_text = <<"$wert$", " ", "-", " ", "2", " ", "-", " ", "4">> =>
               parsed[1].f = Sub(Sub(Input, Const(F64(2))), Const(F64(4)))
        /\ formula_text = <<"$wert$", " ", "-", " ", "2", " ", "+", " ", "4">> =>
               parsed[1].f = Add(Sub(Input, Const(F64(2))), Const(F64(4)))

\* "$wert$ - 2 - 4" parsed and evaluated at 100: (100 - 2) - 4
C15_Witness ==
    /\ ParsedOk
    /\ formula_text = <<"$wert$", " ", "-", " ", "2", " ", "-", " ", "4">>
    /\ status = "returned"
    /\ call.x = F64(100)
    /\ result = <<F64(94)>>

IsExpr(t) == expr(t).ok /\ expr(t).rest = <<>>
MulOps == {"*", "/"}
AddOps == {"+", "-"}

\* the example c1 * x + c2 * x * (log x - 1) + c3 with c1 = 3, c2 = 5, c3 = 7
PrecedenceExample ==
    <<"3", "*", "$wert$", "+", "5", "*", "$wert$", "*", "(", "log", "$wert$",
      "-", "1", ")", "+", "7">>

\* C16: precedence: a multiplicative operator binds tighter than an additive
\* one, a parenthesised expression is one factor, and log applies to the one
\* factor that follows it; so c1 * x + c2 * x * (log x - 1) + c3 parses to
\* Add(Add(Mul(c1, Input), Mul(c2, Mul(Input, Sub(Log(Input), Const(1))))), c3).
C16_Precedence ==
    Parsed =>
        /\ \A p, q \in 1..Len(formula_text) :
               (/\ p < q
                /\ IsTerm(Before(p))
                /\ IsFactor(Between(p, q))
                /\ IsFactor(After(q))) =>
                   /\ (formula_text[p] \in AddOps /\ formula_text[q] \in MulOps) =>
                          parsed[1].f =
                              OpNode(formula_text[p], term(Before(p)).f,
                                     OpNode(formula_text[q],
                                            factor(Between(p, q)).f,
                                            factor(After(q)).f))
                   /\ (formula_text[p] \in MulOps /\ formula_text[q] \in AddOps
                           /\ IsFactor(Before(p))) =>
                          parsed[1].f =
                              OpNode(formula_text[q],
                                     OpNode(formula_text[p],
                                            factor(Before(p)).f,
                                            factor(Between(p, q)).f),
                                     factor(After(q)).f)
        /\ \A q \in 2..Len(formula_text) :
               (/\ formula_text[1] = "("
                /\ formula_text[q] = ")"
                /\ IsExpr(Between(1, q))) =>
                   /\ q = Len(formula_text) =>
                          parsed[1].f = expr(Between(1, q)).f
                   /\ \A p \in (q + 1)..Len(formula_text) :
                          (/\ formula_text[p] \in MulOps
                           /\ multispace0(Between(q, p)) = <<>>
                           /\ IsTerm(After(p))) =>
                              parsed[1].f =
                                  OpNode(formula_text[p], expr(Between(1, q)).f,
                                         term(After(p)).f)
        /\ \A p \in 2..Len(formula_text) :
               (/\ formula_text[1] = "log"
                /\ formula_text[p] \in MulOps \cup AddOps
                /\ IsFactor(Between(1, p))
                /\ IsTerm(After(p))) =>
                   parsed[1].f =
                       OpNode(formula_text[p], Log(factor(Between(1, p)).f),
                              term(After(p)).f)
        /\ formula_text = PrecedenceExample =>
               parsed[1].f =
                   Add(Add(Mul(Const(F64(3)), Input),
                           Mul(Const(F64(5)),
                               Mul(Input, Sub(Log(Input), Const(F64(1)))))),
                       Const(F64(7)))
        /\ formula_text = ParseFormulaText =>
               parsed[1].f =
                   Add(Add(Mul(Const(Frac(-827429, 1000000)), Input),
                           Mul(Const(Frac(89718, 1000000)),
                               Mul(Input, Sub(Log(Input), Const(F64(1)))))),
                       Const(Frac(82941877, 100000)))

\* the text of the test parse_formula parsed
C16_Witness ==
    /\ ParsedOk
    /\ formula_text = ParseFormulaText
    /\ NodeCount(parsed[1].f, "Mul") = 3
    /\ NodeCount(parsed[1].f, "Log") = 1

\* the text t with one whitespace character put in after its first k characters
WithSpace(t, k) == SubSeq(t, 1, k) \o <<" ">> \o SubSeq(t, k + 1, Len(t))

\* the last character of t that is not whitespace, "" when there is none
RECURSIVE LastToken(_)
LastToken(t) ==
    IF t = <<>> THEN ""
    ELSE IF t[Len(t)] \in Whitespace THEN LastToken(SubSeq(t, 1, Len(t) - 1))
    ELSE t[Len(t)]

LiteralChars == {DigitChars[k] : k \in 1..Len(DigitChars)} \cup {"."}

\* is the place after the first k characters of t inside a token: between two
\* characters of a literal, or between the sign of a literal and its digits
\* (a "+" or "-" where a factor starts: first in the text, or after an
\* operator, "(" or "log")
InsideToken(t, k) ==
    /\ 1 <= k
    /\ k < Len(t)
    /\ t[k + 1] \in LiteralChars
    /\ \/ t[k] \in LiteralChars
       \/ /\ t[k] \in AddOps
          /\ LastToken(SubSeq(t, 1, k - 1)) \in {"", "+", "-", "*", "/", "(", "log"}

\* success and AST of two parses agree
SameParse(r1, r2) == r1.ok = r2.ok /\ (r1.ok => r1.f = r2.f)

\* whitespace put in anywhere outside a token leaves the parse as it is
WhitespaceIgnored ==
    \A k \in 0..Len(formula_text) :
        ~InsideToken(formula_text, k) =>
            SameParse(parsed[1], Formula_try_from(WithSpace(formula_text, k)))

---------------------------------------------------------------------------
(* Properties of formula evaluation *)

\* the formula f and its sub-formulas
RECURSIVE Nodes(_)
Nodes(f) ==
    {f}
    \cup (IF f.op \in {"Log", "Add", "Sub", "Mul", "Div"} THEN Nodes(f.a) ELSE {})
    \cup (IF f.op \in {"Add", "Sub", "Mul", "Div"} THEN Nodes(f.b) ELSE {})

\* Formula::eval(x) of the parsed formula has returned
Evaluated == ParsedOk /\ Returned("Formula::eval")

\* the value of the sub-formula g at the income of the call
Value(g) == Formula_eval(g, call.x)

\* a logarithm of a non-positive value, or a division by zero
DomainError(g) ==
    \/ g.op = "Log" /\ FLe(Value(g.a), Zero)
    \/ g.op = "Div" /\ FEq(Value(g.b), Zero)

\* the value of every node is the operator of the node applied to the values
\* of its children
NodeRule(g) ==
    CASE g.op = "Input" -> Value(g) = call.x
      [] g.op = "Const" -> Value(g) = g.c
      [] g.op = "Log"   -> Value(g) = FLn(Value(g.a))
      [] g.op = "Add"   -> Value(g) = FAdd(Value(g.a), Value(g.b))
      [] g.op = "Sub"   -> Value(g) = FSub(Value(g.a), Value(g.b))
      [] g.op = "Mul"   -> Value(g) = FMul(Value(g.a), Value(g.b))
      [] g.op = "Div"   -> Value(g) = FDiv(Value(g.a), Value(g.b))

\* C25 as stated: evaluation always returns a value built node by node, and a
\* Log of a non-positive value or a division by zero yields a non-finite
\* value that reaches the result of the formula.
C25_NonFiniteReachesResult ==
    Evaluated =>
        /\ result = <<Value(parsed[1].f)>>
        /\ \A g \in Nodes(parsed[1].f) :
               /\ NodeRule(g)
               /\ DomainError(g) => ~IsFinite(Value(g)) /\ ~IsFinite(result[1])

\* C25: evaluation always returns a value built node by node; a Log of a
\* non-positive value or a division by zero yields a non-finite value, never
\* trapped or replaced, that is handed to the enclosing operation; the result
\* of the formula is then non-finite too unless a finite value is divided by
\* an infinite one, which gives 0.
C25_FormulaEvalTotal ==
    Evaluated =>
        /\ result = <<Value(parsed[1].f)>>
        /\ \A g \in Nodes(parsed[1].f) :
               /\ NodeRule(g)
               /\ DomainError(g) => ~IsFinite(Value(g))
               /\ (~IsFinite(Value(g)) /\ IsFinite(result[1])) =>
                      \E d \in Nodes(parsed[1].f) :
                          /\ d.op = "Div"
                          /\ g \in Nodes(d.b)
                          /\ IsFinite(Value(d.a))
                          /\ Value(d.b) \in {Inf, NInf}

\* 2 / log x at x = 0: the logarithm is -infinity and the quotient is 0
C25_Witness ==
    /\ Evaluated
    /\ formula_text = <<"2", "/", "log", "$wert$">>
    /\ call.x = Zero
    /\ Value(parsed[1].f.b) = NInf
    /\ result = <<Zero>>

---------------------------------------------------------------------------
(* Properties of compiling the scales *)

\* canton_policy knows the canton of the scale s
Known(s) == canton_policy(s.canton) # "Err"

\* Table::try_from fails for the scale s: a shape error or a formula that
\* does not parse
FailsToBuild(s) == ~RawTable_try_from(s).ok

\* the scales of canton c that build, for single or for married people
BuiltSingle(c) ==
    {k \in 1..Len(scale) :
        scale[k].canton = c /\ is_single(scale[k].group) /\ ~FailsToBuild(scale[k])}
BuiltMarried(c) ==
    {k \in 1..Len(scale) :
        scale[k].canton = c /\ is_married(scale[k].group) /\ ~FailsToBuild(scale[k])}

Last(S) == CHOOSE k \in S : \A j \in S : j <= k

\* C26: a table-construction failure (shape error or formula parse error) of
\* one scale is local: get_cantonal_scales returns what it returns for the
\* response without the failing scales, returns an error only for a canton
\* canton_policy does not know, and otherwise holds the tables of every
\* canton that has a built single and a built married scale.
C26_ConstructionFailureIsLocal ==
    LET Keep(s) == ~(Known(s) /\ FailsToBuild(s))
        loaded == get_cantonal_scales(scale)
    IN  /\ \A k \in 1..Len(scale) : scale[k].built = RawTable_try_from(scale[k])
        /\ loaded = get_cantonal_scales(SelectSeq(scale, Keep))
        /\ loaded.err <=> \E k \in 1..Len(scale) : ~Known(scale[k])
        /\ ~loaded.err =>
               \A c \in LoadedCantons :
                   (BuiltSingle(c) # {} /\ BuiltMarried(c) # {}) =>
                       /\ c \in DOMAIN loaded.map
                       /\ loaded.map[c].single.table
                              = RawTable_try_from(scale[Last(BuiltSingle(c))]).table
                       /\ loaded.map[c].married.table
                              = RawTable_try_from(scale[Last(BuiltMarried(c))]).table
        /\ caller = "check_tests" =>
               /\ ~loaded.err
               /\ \E c \in DOMAIN loaded.map :
                      table \in {loaded.map[c].single.table,
                                 loaded.map[c].married.table}

\* the first scale of the response, of canton BL, has a formula that does not
\* parse; the scale of AG after it is compiled and a test of AG is evaluated
C26_Witness ==
    /\ Len(scale) = 2
    /\ scale[1].canton = "BL"
    /\ scale[1].table_type = "Formel"
    /\ FailsToBuild(scale[1])
    /\ scale[2].canton = "AG"
    /\ scale[2].group = {"Alle"}
    /\ caller = "check_tests"
    /\ Returned("eval_split")
    /\ table = BundExample
    /\ policy = "Round100"

===========================================================================
